---- MODULE Spec2Model ----
(***************************************************************************)
(* A model of ruffd: the AggAvlTree and Rope collections, the              *)
(* DocumentBuffer built from them, and the scheduler of ruffd-core         *)
(* (dispatcher, spawned handler tasks, per-field reader-writer locks).     *)
(***************************************************************************)
EXTENDS Integers, Sequences, FiniteSets, TLC

(***************************************************************************)
(* Generic helpers: Rust's Option as a sequence of length 0 or 1.          *)
(***************************************************************************)
None == <<>>

Some(x) == <<x>>

IsSome(o) == Len(o) = 1

Max(a, b) == IF a >= b THEN a ELSE b

Min(a, b) == IF a <= b THEN a ELSE b

Abs(x) == IF x < 0 THEN -x ELSE x

Take(s, n) == SubSeq(s, 1, Min(n, Len(s)))

Drop(s, n) == SubSeq(s, Min(n, Len(s)) + 1, Len(s))

(***************************************************************************)
(* AggAvlTree (ruffd-types/src/collections/agg_avl_tree.rs).               *)
(* A TreeNode is a Leaf [kind, val] or a Child                             *)
(* [kind, left, right, child_height, elem_count, agg].                     *)
(***************************************************************************)
row_tree_accumulate(a, b) == a + b

LeafNode(v) == [kind |-> "Leaf", val |-> v]

get_height(n) == IF n.kind = "Leaf" THEN None ELSE Some(n.child_height)

get_elem_count(n) == IF n.kind = "Leaf" THEN 1 ELSE n.elem_count

get_agg(n) == IF n.kind = "Leaf" THEN n.val ELSE n.agg

calc_agg(left, right) == row_tree_accumulate(get_agg(left), get_agg(right))

update_height(left, right) ==
    LET lh == get_height(left)
        rh == get_height(right)
        height == IF IsSome(rh)
                  THEN (IF IsSome(lh) THEN Some(Max(lh[1], rh[1])) ELSE rh)
                  ELSE lh
    IN IF IsSome(height) THEN height[1] + 1 ELSE 0

update_elem_count(left, right) == get_elem_count(left) + get_elem_count(right)

\* update_node: recompute aggregate, height and element count from the children
update_node(n) ==
    [n EXCEPT !.agg = calc_agg(n.left, n.right),
              !.child_height = update_height(n.left, n.right),
              !.elem_count = update_elem_count(n.left, n.right)]

ChildNode_new(left, right) ==
    update_node([kind |-> "Child", left |-> left, right |-> right,
                 child_height |-> 0, elem_count |-> 0,
                 agg |-> calc_agg(left, right)])

get_left_elem_count_right(n) == get_elem_count(n.right)

get_left_elem_count(n) == get_elem_count(n.left)

\* TreeNode::get_range on the half-open index range [start_idx, end_idx)
RECURSIVE TreeNode_get_range(_, _, _)
TreeNode_get_range(n, start_idx, end_idx) ==
    IF n.kind = "Leaf"
    THEN IF start_idx > 0 \/ end_idx < 1 THEN None ELSE Some(n.val)
    ELSE IF start_idx = 0 /\ end_idx >= n.elem_count
         THEN Some(n.agg)
         ELSE LET mid_idx == get_left_elem_count(n)
                  lhs_end == Min(mid_idx, end_idx)
                  lhs_result == IF start_idx < mid_idx
                                THEN TreeNode_get_range(n.left, start_idx, lhs_end)
                                ELSE None
                  rhs_start == IF start_idx > mid_idx THEN start_idx - mid_idx ELSE 0
                  rhs_result == IF mid_idx < end_idx
                                THEN TreeNode_get_range(n.right, rhs_start, end_idx - mid_idx)
                                ELSE None
              IN IF IsSome(lhs_result)
                 THEN (IF IsSome(rhs_result)
                       THEN Some(row_tree_accumulate(lhs_result[1], rhs_result[1]))
                       ELSE lhs_result)
                 ELSE rhs_result

balance_ll(old_root) ==
    LET rv == old_root.left
        old_root1 == update_node([old_root EXCEPT !.left = rv.right])
    IN update_node([rv EXCEPT !.right = old_root1])

balance_lr(old_root) ==
    LET old_left == old_root.left
        ret_node == old_left.right
        old_root1 == update_node([old_root EXCEPT !.left = ret_node.right])
        old_left1 == update_node([old_left EXCEPT !.right = ret_node.left])
    IN update_node([ret_node EXCEPT !.left = old_left1, !.right = old_root1])

balance_rl(old_root) ==
    LET old_right == old_root.right
        ret_node == old_right.left
        old_root1 == update_node([old_root EXCEPT !.right = ret_node.left])
        old_right1 == update_node([old_right EXCEPT !.left = ret_node.right])
    IN update_node([ret_node EXCEPT !.right = old_right1, !.left = old_root1])

balance_rr_stale(old_root) ==
    LET rv == old_root.right
        old_root1 == update_node([old_root EXCEPT !.right = rv.left])
    IN [rv EXCEPT !.left = old_root1]

balance_rr(old_root) ==
    LET rv == old_root.right
        old_root1 == update_node([old_root EXCEPT !.right = rv.left])
    IN update_node([rv EXCEPT !.left = old_root1])

HeightOr(n, d) == LET h == get_height(n) IN IF IsSome(h) THEN h[1] ELSE d

balance(n) ==
    IF n.kind = "Leaf" THEN n
    ELSE LET left_height == HeightOr(n.left, -1)
             right_height == HeightOr(n.right, -1)
         IN IF Abs(left_height - right_height) < 2 THEN n
            ELSE IF left_height > right_height
            THEN LET ll_height == HeightOr(n.left.left, -1)
                     lr_height == HeightOr(n.left.right, -1)
                 IN IF ll_height > lr_height THEN balance_ll(n) ELSE balance_lr(n)
            ELSE LET rl_height == HeightOr(n.right.left, -1)
                     rr_height == HeightOr(n.right.right, -1)
                 IN IF rl_height > rr_height THEN balance_rl(n) ELSE balance_rr(n)

RECURSIVE TreeNode_insert(_, _, _)
TreeNode_insert(n, idx, val) ==
    LET rv == IF n.kind = "Leaf"
              THEN IF idx = 0
                   THEN ChildNode_new(LeafNode(val), n)
                   ELSE ChildNode_new(n, LeafNode(val))
              ELSE LET left_nelems == get_left_elem_count(n)
                   IN IF idx > left_nelems
                      THEN ChildNode_new(n.left,
                                         TreeNode_insert(n.right, idx - left_nelems, val))
                      ELSE ChildNode_new(TreeNode_insert(n.left, idx, val), n.right)
    IN balance(rv)

\* TreeNode::update: [ok, node]; ok = FALSE is Err(IndexOutOfBounds)
RECURSIVE TreeNode_update(_, _, _)
TreeNode_update(n, idx, val) ==
    IF n.kind = "Leaf"
    THEN IF idx = 0
         THEN [ok |-> TRUE, node |-> [n EXCEPT !.val = val]]
         ELSE [ok |-> FALSE, node |-> n]
    ELSE LET mid_idx == get_left_elem_count(n)
         IN IF idx < mid_idx
            THEN LET rv == TreeNode_update(n.left, idx, val)
                 IN IF rv.ok
                    THEN [ok |-> TRUE,
                          node |-> [n EXCEPT !.left = rv.node,
                                             !.agg = calc_agg(rv.node, n.right)]]
                    ELSE [ok |-> FALSE, node |-> n]
            ELSE LET rv == TreeNode_update(n.right, idx - mid_idx, val)
                 IN IF rv.ok
                    THEN [ok |-> TRUE,
                          node |-> [n EXCEPT !.right = rv.node,
                                             !.agg = calc_agg(n.left, rv.node)]]
                    ELSE [ok |-> FALSE, node |-> n]

\* TreeNode::delete: Option<TreeNode>; the caller guarantees idx < elem_count
RECURSIVE TreeNode_delete(_, _)
TreeNode_delete(n, idx) ==
    IF n.kind = "Leaf"
    THEN None
    ELSE LET mid_idx == get_left_elem_count(n)
             rv == IF idx < mid_idx
                   THEN LET y == TreeNode_delete(n.left, idx)
                        IN IF IsSome(y) THEN ChildNode_new(y[1], n.right) ELSE n.right
                   ELSE LET y == TreeNode_delete(n.right, idx - mid_idx)
                        IN IF IsSome(y) THEN ChildNode_new(n.left, y[1]) ELSE n.left
         IN Some(balance(rv))

\* the rotation that balance applies to n, if any
balance_case(n) ==
    IF n.kind = "Leaf" THEN "none"
    ELSE LET left_height == HeightOr(n.left, -1)
             right_height == HeightOr(n.right, -1)
         IN IF Abs(left_height - right_height) < 2 THEN "none"
            ELSE IF left_height > right_height
            THEN IF HeightOr(n.left.left, -1) > HeightOr(n.left.right, -1)
                 THEN "balance_ll" ELSE "balance_lr"
            ELSE IF HeightOr(n.right.left, -1) > HeightOr(n.right.right, -1)
                 THEN "balance_rl" ELSE "balance_rr"

\* the rotations applied on the way back from TreeNode::insert
RECURSIVE insert_rotations(_, _, _)
insert_rotations(n, idx, val) ==
    IF n.kind = "Leaf" THEN {}
    ELSE LET left_nelems == get_left_elem_count(n)
         IN IF idx > left_nelems
            THEN insert_rotations(n.right, idx - left_nelems, val)
                    \cup ({balance_case(ChildNode_new(n.left,
                                TreeNode_insert(n.right, idx - left_nelems, val)))}
                          \ {"none"})
            ELSE insert_rotations(n.left, idx, val)
                    \cup ({balance_case(ChildNode_new(TreeNode_insert(n.left, idx, val),
                                                     n.right))}
                          \ {"none"})

\* the rotations applied on the way back from TreeNode::delete
RECURSIVE delete_rotations(_, _)
delete_rotations(n, idx) ==
    IF n.kind = "Leaf" THEN {}
    ELSE LET mid_idx == get_left_elem_count(n)
             rot(child, cidx, rv) ==
                 delete_rotations(child, cidx) \cup ({balance_case(rv)} \ {"none"})
         IN IF idx < mid_idx
            THEN rot(n.left, idx,
                     LET y == TreeNode_delete(n.left, idx)
                     IN IF IsSome(y) THEN ChildNode_new(y[1], n.right) ELSE n.right)
            ELSE rot(n.right, idx - mid_idx,
                     LET y == TreeNode_delete(n.right, idx - mid_idx)
                     IN IF IsSome(y) THEN ChildNode_new(n.left, y[1]) ELSE n.left)

(* AggAvlTree: root is an Option<TreeNode> *)
AggAvlTree_new == None

AggAvlTree_is_empty(root) == ~IsSome(root)

AggAvlTree_len(root) == IF IsSome(root) THEN get_elem_count(root[1]) ELSE 0

AggAvlTree_get_range(root, start_idx, end_idx) ==
    IF IsSome(root) THEN TreeNode_get_range(root[1], start_idx, end_idx) ELSE None

\* get(idx) = get_range(idx..=idx)
AggAvlTree_get(root, idx) == AggAvlTree_get_range(root, idx, idx + 1)

AggAvlTree_insert(root, idx, val) ==
    IF IsSome(root) THEN Some(TreeNode_insert(root[1], idx, val)) ELSE Some(LeafNode(val))

AggAvlTree_insert_back(root, val) ==
    LET idx == IF IsSome(root) THEN get_elem_count(root[1]) ELSE 0
    IN AggAvlTree_insert(root, idx + 1, val)

AggAvlTree_insert_front(root, val) == AggAvlTree_insert(root, 0, val)

\* [ok, root]
AggAvlTree_update(root, idx, val) ==
    IF IsSome(root)
    THEN LET rv == TreeNode_update(root[1], idx, val)
         IN [ok |-> rv.ok, root |-> Some(rv.node)]
    ELSE [ok |-> FALSE, root |-> root]

AggAvlTree_delete_unchecked(root, idx) ==
    IF IsSome(root)
    THEN [ok |-> TRUE, root |-> TreeNode_delete(root[1], idx)]
    ELSE [ok |-> FALSE, root |-> root]

AggAvlTree_delete(root, idx) ==
    IF IsSome(root) /\ idx < get_elem_count(root[1])
    THEN [ok |-> TRUE, root |-> TreeNode_delete(root[1], idx)]
    ELSE [ok |-> FALSE, root |-> root]

RECURSIVE AggAvlTree_from_vec_acc(_, _)
AggAvlTree_from_vec_acc(root, elems) ==
    IF elems = <<>> THEN root
    ELSE AggAvlTree_from_vec_acc(AggAvlTree_insert_back(root, Head(elems)), Tail(elems))

AggAvlTree_from_vec(elems) == AggAvlTree_from_vec_acc(AggAvlTree_new, elems)

\* the in-order element sequence of a tree
RECURSIVE TreeNode_elems(_)
TreeNode_elems(n) ==
    IF n.kind = "Leaf" THEN <<n.val>>
    ELSE TreeNode_elems(n.left) \o TreeNode_elems(n.right)

AggAvlTree_elems(root) == IF IsSome(root) THEN TreeNode_elems(root[1]) ELSE <<>>

(***************************************************************************)
(* Rope (ruffd-types/src/collections/rope.rs).                             *)
(* A RopeNode is a Leaf [kind, val] or a Parent                            *)
(* [kind, left, right, elem_count].                                        *)
(***************************************************************************)
LEAF_SIZE == 64

RopeLeaf(val) == [kind |-> "Leaf", val |-> val]

elem_count(n) == IF n.kind = "Leaf" THEN Len(n.val) ELSE n.elem_count

RopeParent_new(lhs, rhs) ==
    [kind |-> "Parent", left |-> lhs, right |-> rhs,
     elem_count |-> elem_count(lhs) + elem_count(rhs)]

RECURSIVE RopeNode_new(_)
RopeNode_new(val) ==
    IF Len(val) > LEAF_SIZE
    THEN LET mid_idx == Len(val) \div 2
             rhs_node == RopeNode_new(Drop(val, mid_idx))
             lhs_node == RopeNode_new(Take(val, mid_idx))
         IN RopeParent_new(lhs_node, rhs_node)
    ELSE RopeLeaf(val)

RECURSIVE drain(_)
drain(n) == IF n.kind = "Leaf" THEN n.val ELSE drain(n.left) \o drain(n.right)

from_nodes(lhs, rhs) ==
    IF elem_count(lhs) + elem_count(rhs) < LEAF_SIZE
    THEN RopeLeaf(drain(lhs) \o drain(rhs))
    ELSE RopeParent_new(lhs, rhs)

\* splay with the two halves of the left-right case joined in the wrong order
splay_lr_swapped(grandparent, parent_left, parent_node, target_left, target_node) ==
    IF parent_left
    THEN IF target_left
         THEN LET new_grandparent == from_nodes(parent_node.right, grandparent.right)
                  new_parent == from_nodes(target_node.right, new_grandparent)
              IN from_nodes(target_node.left, new_parent)
         ELSE LET new_grandparent == from_nodes(target_node.right, grandparent.right)
                  new_parent == from_nodes(parent_node.left, target_node.left)
              IN from_nodes(new_grandparent, new_parent)
    ELSE IF target_left
         THEN LET new_grandparent == from_nodes(grandparent.left, target_node.left)
                  new_parent == from_nodes(target_node.right, parent_node.right)
              IN from_nodes(new_grandparent, new_parent)
         ELSE LET new_grandparent == from_nodes(grandparent.left, parent_node.left)
                  new_parent == from_nodes(new_grandparent, target_node.left)
              IN from_nodes(new_parent, target_node.right)

\* splay(grandparent, parent, target): parent_left / target_left are the Lr tags
splay(grandparent, parent_left, parent_node, target_left, target_node) ==
    IF parent_left
    THEN IF target_left
         THEN LET new_grandparent == from_nodes(parent_node.right, grandparent.right)
                  new_parent == from_nodes(target_node.right, new_grandparent)
              IN from_nodes(target_node.left, new_parent)
         ELSE LET new_grandparent == from_nodes(target_node.right, grandparent.right)
                  new_parent == from_nodes(parent_node.left, target_node.left)
              IN from_nodes(new_parent, new_grandparent)
    ELSE IF target_left
         THEN LET new_grandparent == from_nodes(grandparent.left, target_node.left)
                  new_parent == from_nodes(target_node.right, parent_node.right)
              IN from_nodes(new_grandparent, new_parent)
         ELSE LET new_grandparent == from_nodes(grandparent.left, parent_node.left)
                  new_parent == from_nodes(new_grandparent, target_node.left)
              IN from_nodes(new_parent, target_node.right)

zig_splay(parent, target_left, target_node) ==
    IF target_left
    THEN LET new_parent == from_nodes(target_node.right, parent.right)
         IN from_nodes(target_node.left, new_parent)
    ELSE LET new_parent == from_nodes(parent.left, target_node.left)
         IN from_nodes(new_parent, target_node.right)

\* SplayRet: L1(parent) | L2(parent, target) | Leaf(vec)
SplayRet_from_node(node) ==
    IF node.kind = "Parent"
    THEN [tag |-> "L1", node |-> node]
    ELSE [tag |-> "Leaf", val |-> node.val]

RopeNode_from_splay_ret(sr) ==
    IF sr.tag = "L1" THEN sr.node
    ELSE IF sr.tag = "L2" THEN zig_splay(sr.parent, sr.target_left, sr.target)
    ELSE RopeLeaf(sr.val)

RECURSIVE RopeNode_insert(_, _, _)
RopeNode_insert(n, val, idx) ==
    IF n.kind = "Leaf"
    THEN SplayRet_from_node(RopeNode_new(Take(n.val, idx) \o val \o Drop(n.val, idx)))
    ELSE LET mid_idx == elem_count(n.left)
             is_left == idx < mid_idx
             ret_val == IF is_left
                        THEN RopeNode_insert(n.left, val, idx)
                        ELSE RopeNode_insert(n.right, val, idx - mid_idx)
         IN IF ret_val.tag = "L1"
            THEN [tag |-> "L2", parent |-> n, target_left |-> is_left,
                  target |-> ret_val.node]
            ELSE IF ret_val.tag = "L2"
            THEN SplayRet_from_node(splay(n, is_left, ret_val.parent,
                                          ret_val.target_left, ret_val.target))
            ELSE SplayRet_from_node(
                     IF is_left
                     THEN from_nodes(RopeNode_new(ret_val.val), n.right)
                     ELSE from_nodes(n.left, RopeNode_new(ret_val.val)))

\* RopeNode::delete(start_idx..end_idx): [panic, node], node an Option<RopeNode>.
\* Vec::drain panics when start_idx > end_idx or end_idx > len.
RECURSIVE RopeNode_delete(_, _, _)
RopeNode_delete(n, start_idx, end_idx) ==
    IF n.kind = "Leaf"
    THEN IF start_idx > end_idx \/ end_idx > Len(n.val)
         THEN [panic |-> TRUE, node |-> None]
         ELSE LET val == Take(n.val, start_idx) \o Drop(n.val, end_idx)
              IN [panic |-> FALSE,
                  node |-> IF val = <<>> THEN None ELSE Some(RopeNode_new(val))]
    ELSE LET mid_idx == elem_count(n.left)
             lhs == IF start_idx < mid_idx
                    THEN RopeNode_delete(n.left, start_idx, Min(mid_idx, end_idx))
                    ELSE [panic |-> FALSE, node |-> Some(n.left)]
             rhs == IF end_idx > mid_idx
                    THEN RopeNode_delete(n.right, Max(start_idx, mid_idx) - mid_idx,
                                         end_idx - mid_idx)
                    ELSE [panic |-> FALSE, node |-> Some(n.right)]
         IN IF lhs.panic \/ rhs.panic
            THEN [panic |-> TRUE, node |-> None]
            ELSE [panic |-> FALSE,
                  node |-> IF ~IsSome(lhs.node) THEN rhs.node
                           ELSE IF ~IsSome(rhs.node) THEN lhs.node
                           ELSE Some(from_nodes(lhs.node[1], rhs.node[1]))]

(* Rope: root is an Option<RopeNode> *)
Rope_new == None

Rope_from_document(document) == Some(RopeNode_new(document))

Rope_len(root) == IF IsSome(root) THEN elem_count(root[1]) ELSE 0

Rope_is_empty(root) == ~IsSome(root)

\* [ok, root]; ok = FALSE is Err(RopeError::IndexOutOfBounds)
Rope_insert(root, string, idx) ==
    IF idx > Rope_len(root)
    THEN [ok |-> FALSE, root |-> root]
    ELSE [ok |-> TRUE,
          root |-> IF IsSome(root)
                   THEN Some(RopeNode_from_splay_ret(RopeNode_insert(root[1], string, idx)))
                   ELSE Some(RopeNode_new(string))]

\* [panic, root]; the root was taken out of the rope when the delete panics
Rope_delete(root, start_idx, end_idx) ==
    IF IsSome(root)
    THEN LET rv == RopeNode_delete(root[1], start_idx, end_idx)
         IN [panic |-> rv.panic, root |-> rv.node]
    ELSE [panic |-> FALSE, root |-> None]

\* RopeIterator::new for the full range (start_idx = 0, tp_agg stays 0 until a
\* left child is empty): walk down, stacking the parents whose left side is entered
RECURSIVE RopeIterator_descend(_, _)
RopeIterator_descend(curr_node, node_stack) ==
    IF curr_node.kind = "Parent"
    THEN IF 0 >= elem_count(curr_node.left)
         THEN RopeIterator_descend(curr_node.right, node_stack)
         ELSE RopeIterator_descend(curr_node.left, Append(node_stack, curr_node))
    ELSE [node_stack |-> node_stack, item_iter |-> curr_node.val]

\* the walk of RopeIterator::next after a pop: stack every parent and go left
RECURSIVE RopeIterator_next_descend(_, _)
RopeIterator_next_descend(curr_node, node_stack) ==
    IF curr_node.kind = "Parent"
    THEN RopeIterator_next_descend(curr_node.left, Append(node_stack, curr_node))
    ELSE [node_stack |-> node_stack, item_iter |-> curr_node.val]

\* RopeIterator::next until exhaustion: the current leaf, then pop and walk down
RECURSIVE RopeIterator_collect(_, _)
RopeIterator_collect(node_stack, item_iter) ==
    IF node_stack = <<>>
    THEN item_iter
    ELSE LET x == node_stack[Len(node_stack)]
             nxt == RopeIterator_next_descend(x.right,
                        SubSeq(node_stack, 1, Len(node_stack) - 1))
         IN item_iter \o RopeIterator_collect(nxt.node_stack, nxt.item_iter)

\* Rope::iter().collect()
Rope_iter_first_leaf(root) ==
    IF IsSome(root) THEN RopeIterator_descend(root[1], <<>>).item_iter ELSE <<>>

Rope_iter(root) ==
    IF IsSome(root)
    THEN LET it == RopeIterator_descend(root[1], <<>>)
         IN RopeIterator_collect(it.node_stack, it.item_iter)
    ELSE <<>>

(***************************************************************************)
(* DocumentBuffer (ruffd-types/src/state.rs): row_tree is an               *)
(* AggAvlTree<usize> of line lengths, text a Rope<char>.  Characters are   *)
(* their code points.                                                      *)
(***************************************************************************)
LF == 10

CR == 13

\* one step of the fold of get_line_lengths: st = [rv, curr, prev_carriage_return]
get_line_lengths_step_split_crlf(st, x) ==
    IF st.prev_carriage_return
    THEN [rv |-> Append(st.rv, st.curr), curr |-> 1, prev_carriage_return |-> x = CR]
    ELSE IF x = LF
    THEN [rv |-> Append(st.rv, st.curr + 1), curr |-> 0, prev_carriage_return |-> FALSE]
    ELSE [rv |-> st.rv, curr |-> st.curr + 1, prev_carriage_return |-> x = CR]

get_line_lengths_step(st, x) ==
    IF x = LF
    THEN [rv |-> Append(st.rv, st.curr + 1), curr |-> 0, prev_carriage_return |-> FALSE]
    ELSE IF st.prev_carriage_return
    THEN [rv |-> Append(st.rv, st.curr), curr |-> 1, prev_carriage_return |-> x = CR]
    ELSE [rv |-> st.rv, curr |-> st.curr + 1, prev_carriage_return |-> x = CR]

\* the fold over chars[lo..hi], left to right, started from st.  The range is
\* halved so that the evaluation stays shallow on long documents; the test on
\* the left half (a usize, never negative) makes TLC finish that half first.
RECURSIVE get_line_lengths_fold(_, _, _, _)
get_line_lengths_fold(chars, lo, hi, st) ==
    IF lo > hi
    THEN st
    ELSE IF lo = hi
    THEN get_line_lengths_step(st, chars[lo])
    ELSE LET mid == (lo + hi) \div 2
             left == get_line_lengths_fold(chars, lo, mid, st)
         IN IF left.curr >= 0
            THEN get_line_lengths_fold(chars, mid + 1, hi, left)
            ELSE left

get_line_lengths(chars) ==
    LET st == get_line_lengths_fold(chars, 1, Len(chars),
                  [rv |-> <<>>, curr |-> 0, prev_carriage_return |-> FALSE])
    IN IF st.prev_carriage_return
       THEN Append(Append(st.rv, st.curr), 0)
       ELSE Append(st.rv, st.curr)


\* A DocumentBuffer value: [row_tree, text]
DocumentBuffer_new == [row_tree |-> AggAvlTree_new, text |-> Rope_new]

DocumentBuffer_from_string(chars) ==
    [row_tree |-> AggAvlTree_from_vec(get_line_lengths(chars)),
     text |-> Rope_from_document(chars)]

\* insert each count at position idx, taking the counts from the back
RECURSIVE insert_counts_back(_, _, _)
insert_counts_back(tree, idx, counts) ==
    IF counts = <<>> THEN tree
    ELSE insert_counts_back(AggAvlTree_insert(tree, idx, counts[Len(counts)]), idx,
                            SubSeq(counts, 1, Len(counts) - 1))

\* DocumentBuffer::insert_text: [res, row_tree, text]
insert_text(buf, chars, row, col) ==
    IF AggAvlTree_is_empty(buf.row_tree)
    THEN IF row # 0 \/ col # 0
         THEN [res |-> "IndexOutOfBounds", row_tree |-> buf.row_tree, text |-> buf.text]
         ELSE [res |-> "Ok",
               row_tree |-> AggAvlTree_from_vec_acc(buf.row_tree, get_line_lengths(chars)),
               text |-> Rope_insert(buf.text, chars, 0).root]
    ELSE LET curr_row == AggAvlTree_get(buf.row_tree, row)
         IN IF ~IsSome(curr_row)
            THEN [res |-> "RowOutOfBounds", row_tree |-> buf.row_tree, text |-> buf.text]
            ELSE IF curr_row[1] < col
            THEN [res |-> "ColOutOfBounds", row_tree |-> buf.row_tree, text |-> buf.text]
            ELSE LET curr_row_size == curr_row[1]
                     suffix_size == curr_row_size - col
                     row_counts == get_line_lengths(chars)
                     first_count == row_counts[1]
                     n == Len(row_counts)
                     t1 == AggAvlTree_update(buf.row_tree, row, col + first_count).root
                     t2 == IF n >= 2
                           THEN AggAvlTree_insert(t1, row + 1, suffix_size + row_counts[n])
                           ELSE AggAvlTree_update(t1, row,
                                                  col + first_count + suffix_size).root
                     t3 == insert_counts_back(t2, row + 1, SubSeq(row_counts, 2, n - 1))
                     prefix == AggAvlTree_get_range(t3, 0, row)
                     idx == (IF IsSome(prefix) THEN prefix[1] ELSE 0) + col
                     ins == Rope_insert(buf.text, chars, idx)
                 IN [res |-> IF ins.ok THEN "Ok" ELSE "RopeError",
                     row_tree |-> t3, text |-> ins.root]

\* delete row start_row + 1 of the tree n times
RECURSIVE delete_rows(_, _, _)
delete_rows(tree, idx, n) ==
    IF n <= 0 THEN [ok |-> TRUE, root |-> tree]
    ELSE LET d == AggAvlTree_delete(tree, idx)
         IN IF d.ok THEN delete_rows(d.root, idx, n - 1) ELSE d

\* DocumentBuffer::delete_range: [res, row_tree, text]
delete_range(buf, start_row, start_col, end_row, end_col) ==
    IF AggAvlTree_is_empty(buf.row_tree)
    THEN [res |-> IF start_row + start_col + end_row + end_col = 0
                  THEN "Ok" ELSE "IndexOutOfBounds",
          row_tree |-> buf.row_tree, text |-> buf.text]
    ELSE LET start_row_size == AggAvlTree_get(buf.row_tree, start_row)
             end_row_size == AggAvlTree_get(buf.row_tree, end_row)
             unchanged(e) == [res |-> e, row_tree |-> buf.row_tree, text |-> buf.text]
         IN IF ~IsSome(start_row_size) THEN unchanged("RowOutOfBounds")
            ELSE IF start_col >= start_row_size[1] THEN unchanged("ColOutOfBounds")
            ELSE IF ~IsSome(end_row_size) THEN unchanged("RowOutOfBounds")
            ELSE IF end_col >= end_row_size[1] THEN unchanged("ColOutOfBounds")
            ELSE LET p0 == AggAvlTree_get_range(buf.row_tree, 0, start_row)
                     start_idx == (IF IsSome(p0) THEN p0[1] ELSE 0) + start_col
                     p1 == AggAvlTree_get_range(buf.row_tree, 0, end_row)
                     end_idx == (IF IsSome(p1) THEN p1[1] ELSE 0) + end_col
                     del == Rope_delete(buf.text, start_idx, end_idx)
                     suffix_len == end_row_size[1] - end_col
                     rows == delete_rows(buf.row_tree, start_row + 1, end_row - start_row)
                     upd == AggAvlTree_update(rows.root, start_row, start_col + suffix_len)
                 IN IF del.panic
                    THEN [res |-> "Panic", row_tree |-> buf.row_tree, text |-> del.root]
                    ELSE IF ~rows.ok
                    THEN [res |-> "AggAvlTreeError", row_tree |-> rows.root,
                          text |-> del.root]
                    ELSE [res |-> IF upd.ok THEN "Ok" ELSE "AggAvlTreeError",
                          row_tree |-> upd.root, text |-> del.root]

\* DocumentBuffer::iter().collect()
DocumentBuffer_iter(buf) == Rope_iter(buf.text)

(***************************************************************************)
(* Reference semantics of (row, col)-addressed edits on a plain string.    *)
(***************************************************************************)
RECURSIVE SumSeq(_)
SumSeq(s) == IF s = <<>> THEN 0 ELSE Head(s) + SumSeq(Tail(s))

\* positions at which a line of the plain string s ends
LineEnds(s) ==
    {i \in 1..Len(s) : \/ s[i] = LF
                       \/ s[i] = CR /\ (i = Len(s) \/ s[i + 1] # LF)}

\* the lengths of the lines of s, terminators included, and of the text after the last
RECURSIVE NaiveRowLens(_)
NaiveRowLens(s) ==
    IF LineEnds(s) = {}
    THEN <<Len(s)>>
    ELSE LET k == CHOOSE i \in LineEnds(s) : \A j \in LineEnds(s) : i <= j
         IN <<k>> \o NaiveRowLens(Drop(s, k))

\* the absolute index of (row, col) in s, or -1 when s has no such position
RefIndex(s, row, col) ==
    LET L == NaiveRowLens(s)
    IN IF row < Len(L) /\ col <= L[row + 1]
       THEN SumSeq(SubSeq(L, 1, row)) + col
       ELSE -1

(***************************************************************************)
(* Bounds and inputs of the DocumentBuffer specification.                  *)
(***************************************************************************)
MaxEdits == 2

MaxRow == 2

MaxCol == 4

Rep(c, n) == [i \in 1..n |-> c]

DocLong == Rep(97, 31) \o <<LF>> \o <<97, 98, LF>> \o Rep(99, 31)

InitDocs == {<<>>, <<97, 98, LF, 99, 100>>, <<97, CR>>, <<97, 98, 99>>, DocLong}

Texts == {<<>>, <<120>>, <<LF>>, <<CR>>, <<120, LF, 121>>, <<120, CR, LF, 121, LF, 122>>}

\* the DocumentBuffer under test: its OST and rope, the outcome and the name of
\* the last call, the reference string and whether it could follow every call,
\* the number of calls, and (where single calls are examined) the arguments of
\* the last call
VARIABLES row_tree, text, doc_res, doc_op, ref, ref_ok, n_edits, doc_call

\* the Rope under test: its root, the reference sequence, the outcome of the
\* last call, whether every call so far was within bounds, the number of calls
\* and what the calls did to the tree so far (split, splay, zig_splay, merge)
VARIABLES rope_root, rope_ref, rope_res, rope_valid, rope_n, rope_events

docvars == <<row_tree, text, doc_res, doc_op, ref, ref_ok, n_edits, doc_call>>

\* the running server (ruffd-core/src/server.rs): the frames read so far, the
\* task channel, the response channel and what the writer wrote, the dispatcher's
\* position and the task it waits for, the spawned tasks, the ServerState
\* fields the handlers use, user_tasks, whether the process still runs, and the
\* frame numbers of the buffer mutations in the order they took effect
VARIABLES wire_n, msg_channel, response_channel, wire_out, disp_pc, disp_task,
          tasks, open_buffers, checks, user_tasks, alive, applied

ropevars == <<rope_root, rope_ref, rope_res, rope_valid, rope_n, rope_events>>

srvvars == <<wire_n, msg_channel, response_channel, wire_out, disp_pc, disp_task,
             tasks, open_buffers, checks, user_tasks, alive, applied>>

\* the AggAvlTree under test: its root, the reference sequence of its elements,
\* the outcome and the name of the last call, the number of calls, and the
\* rotations that the calls applied so far
VARIABLES avl_root, avl_ref, avl_res, avl_op, avl_n, avl_rot

avlvars == <<avl_root, avl_ref, avl_res, avl_op, avl_n, avl_rot>>

\* the start of Server::run: Server.state (None or Some), where run is, what
\* the writer wrote, and for every frame read so far the frame, the state
\* before and after it, and the response written for it
VARIABLES hs_state, hs_pc, hs_out, hs_log

\* the input of the server as bytes: the frames the client has written, the
\* bytes of them the reader has not consumed yet, and what the calls of
\* read_next_msg have returned so far
VARIABLES frames_sent, reader, msgs_read

framevars == <<frames_sent, reader, msgs_read>>

hsvars == <<hs_state, hs_pc, hs_out, hs_log, framevars>>

vars == <<docvars, ropevars, srvvars, avlvars, hsvars>>

FrameIdle == frames_sent = <<>> /\ reader = <<>> /\ msgs_read = <<>>

HsIdle ==
    /\ hs_state = "Uninitialised" /\ hs_pc = "idle" /\ hs_out = <<>> /\ hs_log = <<>>
    /\ FrameIdle

AvlIdle ==
    /\ avl_root = None /\ avl_ref = <<>> /\ avl_res = "Ok" /\ avl_op = "idle" /\ avl_n = 0
    /\ avl_rot = {}

\* the documents the client talks about
URIs == {"file:///a.py"}

\* a HashMap keyed by URI without entries: every key maps to None
EmptyMap == [u \in URIs |-> None]

SrvIdle ==
    /\ wire_n = 0 /\ msg_channel = <<>> /\ response_channel = <<>> /\ wire_out = <<>>
    /\ disp_pc = "idle" /\ disp_task = 0 /\ tasks = <<>>
    /\ open_buffers = EmptyMap /\ checks = EmptyMap /\ user_tasks = {}
    /\ alive = FALSE /\ applied = <<>>

RopeIdle ==
    /\ rope_root = None /\ rope_ref = <<>> /\ rope_res = "Idle"
    /\ rope_valid = TRUE /\ rope_n = 0 /\ rope_events = {}

DocBuf == [row_tree |-> row_tree, text |-> text]

DocIdle ==
    /\ row_tree = None /\ text = None /\ doc_res = "Idle" /\ doc_op = "idle"
    /\ ref = <<>> /\ ref_ok = TRUE /\ n_edits = 0 /\ doc_call = <<>>

\* DocumentBuffer::new() or DocumentBuffer::from_string(s)
DocInit ==
    /\ \/ /\ row_tree = DocumentBuffer_new.row_tree
          /\ text = DocumentBuffer_new.text
          /\ ref = <<>>
          /\ doc_op = "new"
       \/ \E s \in InitDocs :
             /\ row_tree = DocumentBuffer_from_string(s).row_tree
             /\ text = DocumentBuffer_from_string(s).text
             /\ ref = s
             /\ doc_op = "from_string"
    /\ doc_res = "Ok"
    /\ ref_ok = TRUE
    /\ n_edits = 0
    /\ doc_call = <<>>
    /\ RopeIdle
    /\ SrvIdle
    /\ AvlIdle
    /\ HsIdle

DocInsertText(chars, row, col) ==
    /\ n_edits < MaxEdits
    /\ doc_res # "Panic"
    /\ \E r \in {insert_text(DocBuf, chars, row, col)}, i \in {RefIndex(ref, row, col)} :
          /\ row_tree' = r.row_tree
          /\ text' = r.text
          /\ doc_res' = r.res
          /\ ref' = IF r.res = "Ok" /\ i >= 0
                    THEN Take(ref, i) \o chars \o Drop(ref, i)
                    ELSE ref
          /\ ref_ok' = (ref_ok /\ (r.res = "Ok" => i >= 0))
    /\ doc_op' = "insert_text"
    /\ n_edits' = n_edits + 1
    /\ UNCHANGED doc_call
    /\ UNCHANGED <<ropevars, srvvars, avlvars, hsvars>>

DocDeleteRange(start_row, start_col, end_row, end_col) ==
    /\ n_edits < MaxEdits
    /\ doc_res # "Panic"
    /\ \E r \in {delete_range(DocBuf, start_row, start_col, end_row, end_col)},
          i \in {RefIndex(ref, start_row, start_col)},
          j \in {RefIndex(ref, end_row, end_col)} :
       LET valid == i >= 0 /\ j >= i
       IN /\ row_tree' = r.row_tree
          /\ text' = r.text
          /\ doc_res' = r.res
          /\ ref' = IF r.res = "Ok" /\ valid
                    THEN Take(ref, i) \o Drop(ref, j)
                    ELSE ref
          /\ ref_ok' = (ref_ok /\ (r.res = "Ok" => valid))
    /\ doc_op' = "delete_range"
    /\ n_edits' = n_edits + 1
    /\ UNCHANGED doc_call
    /\ UNCHANGED <<ropevars, srvvars, avlvars, hsvars>>

DocNext ==
    \/ \E chars \in Texts, row \in 0..MaxRow, col \in 0..MaxCol :
          DocInsertText(chars, row, col)
    \/ \E start_row \in 0..MaxRow, start_col \in 0..MaxCol,
          end_row \in 0..MaxRow, end_col \in 0..MaxCol :
          DocDeleteRange(start_row, start_col, end_row, end_col)

SpecDoc == DocInit /\ [][DocNext]_vars

(***************************************************************************)
(* Claims about the DocumentBuffer.                                        *)
(***************************************************************************)

\* C1: after every insert_text / delete_range call that returns Ok, the sum of
\* the row_tree entries equals the length of the rope.
C1_SumOstEqualsRopeLen ==
    doc_res = "Ok" => SumSeq(AggAvlTree_elems(row_tree)) = Rope_len(text)

\* C2: after successful insert_text / delete_range calls, iter().collect() equals
\* the plain reference string that received the same (row, col)-addressed edits.
C2_IterEqualsReference ==
    doc_res = "Ok" => (ref_ok /\ DocumentBuffer_iter(DocBuf) = ref)

\* from_string on its own: every string of up to MaxStrLen characters over
\* a letter and the two line ends, and the documents of InitDocs
MaxStrLen == 4

Strings == UNION {[1..k -> {97, LF, CR}] : k \in 0..MaxStrLen} \cup InitDocs

FromStringInit ==
    /\ ref \in Strings
    /\ row_tree = None /\ text = None /\ doc_res = "Idle" /\ doc_op = "idle"
    /\ ref_ok = TRUE /\ n_edits = 0 /\ doc_call = <<>>
    /\ RopeIdle /\ SrvIdle /\ AvlIdle /\ HsIdle

\* DocumentBuffer::from_string(ref)
DocFromString ==
    /\ doc_op = "idle"
    /\ \E b \in {DocumentBuffer_from_string(ref)} :
          /\ row_tree' = b.row_tree
          /\ text' = b.text
    /\ doc_res' = "Ok"
    /\ doc_op' = "from_string"
    /\ UNCHANGED <<ref, ref_ok, n_edits, doc_call>>
    /\ UNCHANGED <<ropevars, srvvars, avlvars, hsvars>>

SpecFromString == FromStringInit /\ [][DocFromString]_vars

\* C13: for every string s, DocumentBuffer::from_string(s).iter().collect()
\* equals s when no edit was applied.
C13_FromStringRoundTrip ==
    (doc_op = "from_string" /\ n_edits = 0) => DocumentBuffer_iter(DocBuf) = ref

\* a document longer than one leaf, with line ends, straight after from_string
C13_Witness ==
    /\ doc_op = "from_string" /\ n_edits = 0
    /\ Len(ref) > LEAF_SIZE
    /\ \E k \in 1..Len(ref) : ref[k] = LF
    /\ text[1].kind # "Leaf"
    /\ DocumentBuffer_iter(DocBuf) = ref

\* C31: the OST built by from_string has one entry per line, where LF, CR LF
\* and a bare CR each end a line (an LF straight after a CR belongs to the
\* line of the CR), every entry counts its terminator, and a last entry,
\* possibly 0, holds the text after the last terminator.
C31_FromStringLineLengths ==
    (doc_op = "from_string" /\ n_edits = 0) =>
        AggAvlTree_elems(row_tree) = NaiveRowLens(ref)

\* a text with a CR LF pair after an ordinary character and a bare CR at its
\* end: rows 3, 1 and the empty last row
C31_Witness ==
    /\ doc_op = "from_string" /\ n_edits = 0
    /\ ref = <<97, CR, LF, CR>>
    /\ AggAvlTree_elems(row_tree) = <<3, 1, 0>>

(***************************************************************************)
(* Single calls of insert_text and delete_range with their arguments kept. *)
(***************************************************************************)
MaxEditCalls == 2

\* "ab\ncd", "a\n" (its last row is empty) and a text of two rope leaves
EditDocs == {<<97, 98, LF, 99, 100>>, <<97, LF>>, DocLong}

EditTexts == {<<120, 121>>, <<120, LF, 121>>}

\* DocumentBuffer::new() or DocumentBuffer::from_string(s)
EditInit ==
    /\ \/ /\ row_tree = DocumentBuffer_new.row_tree
          /\ text = DocumentBuffer_new.text
          /\ ref = <<>>
          /\ doc_op = "new"
       \/ \E s \in EditDocs :
             /\ row_tree = DocumentBuffer_from_string(s).row_tree
             /\ text = DocumentBuffer_from_string(s).text
             /\ ref = s
             /\ doc_op = "from_string"
    /\ doc_res = "Ok"
    /\ ref_ok = TRUE
    /\ n_edits = 0
    /\ doc_call = <<>>
    /\ RopeIdle /\ SrvIdle /\ AvlIdle /\ HsIdle

\* insert_text(chars, (row, col)); doc_call keeps the arguments
EditInsertText(chars, row, col) ==
    /\ n_edits < MaxEditCalls
    /\ doc_res # "Panic"
    /\ \E r \in {insert_text(DocBuf, chars, row, col)} :
          /\ row_tree' = r.row_tree
          /\ text' = r.text
          /\ doc_res' = r.res
    /\ doc_op' = "insert_text"
    /\ doc_call' = <<chars, row, col>>
    /\ n_edits' = n_edits + 1
    /\ UNCHANGED <<ref, ref_ok>>
    /\ UNCHANGED <<ropevars, srvvars, avlvars, hsvars>>

\* delete_range((start_row, start_col), (end_row, end_col)); doc_call keeps
\* the arguments
EditDeleteRange(start_row, start_col, end_row, end_col) ==
    /\ n_edits < MaxEditCalls
    /\ doc_res # "Panic"
    /\ \E r \in {delete_range(DocBuf, start_row, start_col, end_row, end_col)} :
          /\ row_tree' = r.row_tree
          /\ text' = r.text
          /\ doc_res' = r.res
    /\ doc_op' = "delete_range"
    /\ doc_call' = <<start_row, start_col, end_row, end_col>>
    /\ n_edits' = n_edits + 1
    /\ UNCHANGED <<ref, ref_ok>>
    /\ UNCHANGED <<ropevars, srvvars, avlvars, hsvars>>

EditNext ==
    \/ \E chars \in EditTexts, row \in 0..MaxRow, col \in 0..MaxCol :
          EditInsertText(chars, row, col)
    \/ \E start_row \in 0..MaxRow, start_col \in 0..MaxCol,
          end_row \in 0..MaxRow, end_col \in 0..MaxCol :
          EditDeleteRange(start_row, start_col, end_row, end_col)

SpecEdit == EditInit /\ [][EditNext]_vars

\* the row lengths held by the OST
Ost == AggAvlTree_elems(row_tree)

\* what insert_text(text, (row, col)) is to return on a buffer whose OST holds
\* the row lengths ost
insert_text_expected(ost, row, col) ==
    IF ost = <<>>
    THEN IF row = 0 /\ col = 0 THEN "Ok" ELSE "IndexOutOfBounds"
    ELSE IF row >= Len(ost) THEN "RowOutOfBounds"
    ELSE IF col > ost[row + 1] THEN "ColOutOfBounds"
    ELSE "Ok"

\* C28: insert_text(text, (row, col)) fails with RowOutOfBounds when
\* row >= len(OST), with ColOutOfBounds when col > OST[row], and on an empty
\* buffer with an error unless (row, col) = (0, 0); every failing call leaves
\* the OST and the rope unchanged, and every other call succeeds.
C28_InsertTextErrors ==
    [][doc_op' = "insert_text" =>
          /\ doc_res' = insert_text_expected(Ost, doc_call'[2], doc_call'[3])
          /\ doc_res' # "Ok" => (row_tree' = row_tree /\ text' = text)]_vars

\* the index in the text of (row, col) for the row lengths ost
ost_index(ost, row, col) == SumSeq(SubSeq(ost, 1, row)) + col

\* C29: delete_range on an empty buffer succeeds only for ((0,0),(0,0)) and
\* otherwise returns IndexOutOfBounds; on a non-empty buffer it returns
\* RowOutOfBounds for an endpoint row >= len(OST) and ColOutOfBounds for an
\* endpoint col >= that row's length (either of the two when both apply), the
\* buffer is unchanged on every error, and a deletion from an in-bounds start
\* up to the end of line `row` given with the end (row + 1, 0) succeeds and
\* removes exactly the text from the start to the end of that line.  The end
\* (row + 1, 0) of an existing line `row` is read as that encoding, not as an
\* endpoint to refuse.
C29_DeleteRangeErrors ==
    [][doc_op' = "delete_range" =>
          LET start_row == doc_call'[1]
              start_col == doc_call'[2]
              end_row == doc_call'[3]
              end_col == doc_call'[4]
              eol == end_col = 0 /\ end_row >= 1 /\ end_row <= Len(Ost)
              bad_row == start_row >= Len(Ost) \/ (~eol /\ end_row >= Len(Ost))
              bad_col == \/ start_row < Len(Ost) /\ start_col >= Ost[start_row + 1]
                         \/ ~eol /\ end_row < Len(Ost) /\ end_col >= Ost[end_row + 1]
          IN /\ Ost = <<>> =>
                   doc_res' = IF start_row + start_col + end_row + end_col = 0
                              THEN "Ok" ELSE "IndexOutOfBounds"
             /\ (Ost # <<>> /\ bad_row /\ ~bad_col) => doc_res' = "RowOutOfBounds"
             /\ (Ost # <<>> /\ bad_col /\ ~bad_row) => doc_res' = "ColOutOfBounds"
             /\ (Ost # <<>> /\ bad_col /\ bad_row) =>
                   doc_res' \in {"RowOutOfBounds", "ColOutOfBounds"}
             /\ doc_res' \notin {"Ok", "Panic"} =>
                   (row_tree' = row_tree /\ text' = text)
             /\ (/\ eol
                 /\ start_row < end_row
                 /\ start_col < Ost[start_row + 1]) =>
                   /\ doc_res' = "Ok"
                   /\ Rope_iter(text') =
                         Take(Rope_iter(text), ost_index(Ost, start_row, start_col))
                            \o Drop(Rope_iter(text), ost_index(Ost, end_row, 0))]_vars

\* C30: after insert_text(t, (0, 0)) of one unterminated line t into the
\* buffer made by new(), delete_range((0, 0), (0, len(t))) succeeds and leaves
\* no text; and insert_text(t, (0, 0)) after a delete_range that succeeded and
\* left no text succeeds and yields t.
C30_DeleteAllAndInsert ==
    [][/\ (/\ ref = <<>> /\ n_edits = 1
           /\ doc_op = "insert_text" /\ doc_res = "Ok"
           /\ doc_call[2] = 0 /\ doc_call[3] = 0
           /\ \A k \in DOMAIN doc_call[1] : doc_call[1][k] \notin {LF, CR}
           /\ doc_op' = "delete_range"
           /\ doc_call' = <<0, 0, 0, Len(doc_call[1])>>) =>
              /\ doc_res' = "Ok"
              /\ Rope_iter(text') = <<>>
       /\ (/\ doc_op = "delete_range" /\ doc_res = "Ok"
           /\ Rope_iter(text) = <<>>
           /\ doc_op' = "insert_text"
           /\ doc_call'[2] = 0 /\ doc_call'[3] = 0) =>
              /\ doc_res' = "Ok"
              /\ Rope_iter(text') = doc_call'[1]]_vars

\* C39: delete_range with a start that lies after its end, both of them in
\* bounds on their own, on a buffer whose OST sums to the length of its rope,
\* returns an error and leaves OST and rope as they were; it does not return
\* Ok with an OST whose sum differs from the rope's length.
C39_StartAfterEndRefused ==
    [][doc_op' = "delete_range" =>
          LET start_row == doc_call'[1]
              start_col == doc_call'[2]
              end_row == doc_call'[3]
              end_col == doc_call'[4]
              in_bounds(row, col) == row < Len(Ost) /\ col < Ost[row + 1]
          IN (/\ SumSeq(Ost) = Len(Rope_iter(text))
              /\ in_bounds(start_row, start_col)
              /\ in_bounds(end_row, end_col)
              /\ (end_row < start_row \/ (end_row = start_row /\ end_col < start_col))) =>
                 /\ doc_res' \notin {"Ok", "Panic"}
                 /\ row_tree' = row_tree /\ text' = text
                 /\ ~(doc_res' = "Ok"
                      /\ SumSeq(AggAvlTree_elems(row_tree')) # Len(Rope_iter(text')))]_vars

\* C32: after insert_text or delete_range has returned Ok the OST has one
\* entry per line of the current text, each the length of its line: it equals
\* the line lengths that from_string computes for the current content.  (The
\* buffer of new() that never received text, whose OST has no entry at all, is
\* left aside.)
C32_OstMatchesLines ==
    (doc_op \in {"insert_text", "delete_range"} /\ doc_res = "Ok" /\ Ost # <<>>) =>
        Ost = get_line_lengths(Rope_iter(text))

(***************************************************************************)
(* The Rope on its own: insert and delete against a reference sequence.    *)
(***************************************************************************)
MaxRopeEdits == 3

\* a document of n distinct elements
Doc(n) == [i \in 1..n |-> i]

\* the chunk of k elements that the e-th call inserts
Chunk(e, k) == [i \in 1..k |-> 1000 * e + i]

RopeDocs == {Doc(0), Doc(3), Doc(65), Doc(130)}

ChunkLens == {0, 1, 40}

\* the indices tried on a rope of len elements: leaf boundaries of the initial
\* documents, both ends, and one index past the end
Positions(len) == {i \in {0, 1, 32, 65, 97, len, len + 1} : i <= len + 1}

\* what RopeNode::insert does on the way: a leaf that overflows is split by
\* RopeNode::new, an L2 result makes the parent above call splay
RECURSIVE insert_events(_, _, _)
insert_events(n, val, idx) ==
    IF n.kind = "Leaf"
    THEN IF Len(n.val) + Len(val) > LEAF_SIZE THEN {"split"} ELSE {}
    ELSE LET mid_idx == elem_count(n.left)
             child == IF idx < mid_idx THEN n.left ELSE n.right
             cidx == IF idx < mid_idx THEN idx ELSE idx - mid_idx
         IN insert_events(child, val, cidx)
               \cup (IF RopeNode_insert(child, val, cidx).tag = "L2"
                     THEN {"splay"} ELSE {})

\* what RopeNode::delete does on the way: from_nodes merges two remaining
\* sides into one leaf when they hold fewer than LEAF_SIZE elements
RECURSIVE delete_events(_, _, _)
delete_events(n, start_idx, end_idx) ==
    IF n.kind = "Leaf"
    THEN {}
    ELSE LET mid_idx == elem_count(n.left)
             goes_left == start_idx < mid_idx
             goes_right == end_idx > mid_idx
             lhs == IF goes_left
                    THEN RopeNode_delete(n.left, start_idx, Min(mid_idx, end_idx))
                    ELSE [panic |-> FALSE, node |-> Some(n.left)]
             rhs == IF goes_right
                    THEN RopeNode_delete(n.right, Max(start_idx, mid_idx) - mid_idx,
                                         end_idx - mid_idx)
                    ELSE [panic |-> FALSE, node |-> Some(n.right)]
         IN (IF goes_left
             THEN delete_events(n.left, start_idx, Min(mid_idx, end_idx)) ELSE {})
            \cup (IF goes_right
                  THEN delete_events(n.right, Max(start_idx, mid_idx) - mid_idx,
                                     end_idx - mid_idx)
                  ELSE {})
            \cup (IF /\ ~lhs.panic /\ ~rhs.panic
                     /\ IsSome(lhs.node) /\ IsSome(rhs.node)
                     /\ elem_count(lhs.node[1]) + elem_count(rhs.node[1]) < LEAF_SIZE
                  THEN {"merge"} ELSE {})

RopeInit ==
    /\ \/ rope_root = Rope_new /\ rope_ref = <<>>
       \/ \E d \in RopeDocs : rope_root = Rope_from_document(d) /\ rope_ref = d
    /\ rope_res = "Ok"
    /\ rope_valid = TRUE
    /\ rope_n = 0
    /\ rope_events = {}
    /\ DocIdle
    /\ SrvIdle
    /\ AvlIdle
    /\ HsIdle

\* Rope::insert(string, idx)
RopeInsert(k, idx) ==
    /\ rope_n < MaxRopeEdits
    /\ rope_res # "Panic"
    /\ \E string \in {Chunk(rope_n + 1, k)} :
       \E r \in {Rope_insert(rope_root, string, idx)} :
       LET in_bounds == idx <= Len(rope_ref)
       IN /\ rope_root' = r.root
          /\ rope_res' = IF r.ok THEN "Ok" ELSE "IndexOutOfBounds"
          /\ rope_ref' = IF in_bounds
                         THEN Take(rope_ref, idx) \o string \o Drop(rope_ref, idx)
                         ELSE rope_ref
          /\ rope_valid' = (rope_valid /\ in_bounds)
          /\ rope_events' =
                IF r.ok /\ IsSome(rope_root)
                THEN rope_events \cup insert_events(rope_root[1], string, idx)
                        \cup (IF RopeNode_insert(rope_root[1], string, idx).tag = "L2"
                              THEN {"zig_splay"} ELSE {})
                ELSE rope_events
    /\ rope_n' = rope_n + 1
    /\ UNCHANGED <<docvars, srvvars, avlvars, hsvars>>

\* Rope::delete(start_idx..end_idx)
RopeDelete(start_idx, end_idx) ==
    /\ rope_n < MaxRopeEdits
    /\ rope_res # "Panic"
    /\ \E r \in {Rope_delete(rope_root, start_idx, end_idx)} :
       LET in_bounds == start_idx <= end_idx /\ end_idx <= Len(rope_ref)
       IN /\ rope_root' = r.root
          /\ rope_res' = IF r.panic THEN "Panic" ELSE "Ok"
          /\ rope_ref' = IF in_bounds
                         THEN Take(rope_ref, start_idx) \o Drop(rope_ref, end_idx)
                         ELSE rope_ref
          /\ rope_valid' = (rope_valid /\ in_bounds)
          /\ rope_events' =
                IF ~r.panic /\ IsSome(rope_root)
                THEN rope_events \cup delete_events(rope_root[1], start_idx, end_idx)
                ELSE rope_events
    /\ rope_n' = rope_n + 1
    /\ UNCHANGED <<docvars, srvvars, avlvars, hsvars>>

RopeNext ==
    \/ \E k \in ChunkLens, idx \in Positions(Rope_len(rope_root)) : RopeInsert(k, idx)
    \/ \E start_idx \in Positions(Rope_len(rope_root)),
          end_idx \in Positions(Rope_len(rope_root)) : RopeDelete(start_idx, end_idx)

SpecRope == RopeInit /\ [][RopeNext]_vars

\* C10: after any sequence of insert(chunk, idx) with idx <= len and
\* delete(range) with 0 <= start <= end <= len, no call has failed and
\* iter().collect() equals the reference sequence edited the same way.
C10_RopeIterEqualsReference ==
    rope_valid => (rope_res = "Ok" /\ Rope_iter(rope_root) = rope_ref)

\* C10 witness: in-bounds calls that split a leaf, splayed, and merged leaves
C10_Witness ==
    /\ rope_valid /\ rope_res = "Ok" /\ rope_n = MaxRopeEdits
    /\ {"split", "splay", "merge"} \subseteq rope_events
    /\ Rope_iter(rope_root) = rope_ref
    /\ Len(rope_ref) > LEAF_SIZE

\* C26: Rope::delete(start..end) with start <= end and end beyond the length
\* does not fail: it returns normally and removes exactly the part of the
\* range that lies inside [0, len).
C26_DeleteClipsRange ==
    [][\A start_idx, end_idx \in Positions(Rope_len(rope_root)) :
          (/\ start_idx <= end_idx
           /\ end_idx > Rope_len(rope_root)
           /\ Rope_iter(rope_root) = rope_ref
           /\ RopeDelete(start_idx, end_idx)) =>
              /\ rope_res' = "Ok"
              /\ Rope_iter(rope_root') =
                    Take(rope_ref, Min(start_idx, Len(rope_ref)))]_vars

(***************************************************************************)
(* The server (ruffd-core): messages, lock plans and handler bodies.       *)
(***************************************************************************)
\* capacity of the task channel and of the response channel
ChannelCapacity == 1000

\* the field of ServerState that run_diagnostic_op and doc_code_action lock
ChecksField == "checks"

\* the order in which server_state_handles_from_locks takes the planned leases
FieldOrder ==
    <<"project_root", "open_buffers", "capabilities", "settings">> \o <<ChecksField>>

Fields == {FieldOrder[i] : i \in 1..Len(FieldOrder)}

\* ServerStateLocks::default(): no field requested
ServerStateLocks_default == [f \in Fields |-> "None"]

\* REGISTRY.get(method): the handler registered under the method's name
HashMap_get_any(map, key) == Some(map[CHOOSE k \in DOMAIN map : TRUE])

HashMap_get(map, key) == IF key \in DOMAIN map THEN Some(map[key]) ELSE None

REQUEST_REGISTRY == [m \in {"textDocument/codeAction"} |-> "doc_code_action"]

NOTIFICATION_REGISTRY ==
    [m \in {"initialized", "textDocument/didOpen", "textDocument/didChange"} |->
        IF m = "initialized" THEN "initialized_notif"
        ELSE IF m = "textDocument/didOpen" THEN "document_did_open"
        ELSE "document_did_change"]

\* the document handlers plan no lease on open_buffers
create_locks_no_open_buffers(handler) ==
    IF handler = "doc_code_action"
    THEN [ServerStateLocks_default EXCEPT ![ChecksField] = "Read"]
    ELSE IF handler = "run_diagnostic_op"
    THEN [ServerStateLocks_default EXCEPT !["open_buffers"] = "Read",
                                          ![ChecksField] = "Write"]
    ELSE ServerStateLocks_default

\* create_locks of each handler: the RwReq it sets in ServerStateLocks
create_locks(handler) ==
    IF handler \in {"document_did_open", "document_did_change"}
    THEN [ServerStateLocks_default EXCEPT !["open_buffers"] = "Write"]
    ELSE IF handler = "doc_code_action"
    THEN [ServerStateLocks_default EXCEPT ![ChecksField] = "Read"]
    ELSE IF handler = "run_diagnostic_op"
    THEN [ServerStateLocks_default EXCEPT !["open_buffers"] = "Read",
                                          ![ChecksField] = "Write"]
    ELSE ServerStateLocks_default

\* the fields server_state_handles_from_locks locks, in the order it locks them
server_state_handles_from_locks(locks) ==
    SelectSeq(FieldOrder, LAMBDA f : locks[f] # "None")

JSON_RPC_VERSION == "2.0"

\* params of a message: given is whether the message has params at all, ok is
\* whether they decode to the handler's type
Params(ok, uri, chars, content_changes) ==
    [given |-> TRUE, ok |-> ok, uri |-> uri, text |-> chars,
     content_changes |-> content_changes]

\* params of a textDocument/codeAction request: the document and the range
CodeActionParams(ok, uri, range) ==
    [given |-> TRUE, ok |-> ok, uri |-> uri, text |-> <<>>, content_changes |-> <<>>,
     range |-> range]

\* params: None
NoParams == [Params(TRUE, "", <<>>, <<>>) EXCEPT !.given = FALSE]

RpcRequest(id, method, params) ==
    [type |-> "Request", id |-> id, method |-> method, params |-> params, seq |-> id,
     jsonrpc |-> JSON_RPC_VERSION, content_type |-> "utf-8"]

RpcNotification(method, params, seq) ==
    [type |-> "Notification", id |-> 0, method |-> method, params |-> params, seq |-> seq,
     jsonrpc |-> JSON_RPC_VERSION, content_type |-> "utf-8"]

\* a message with neither method nor handler: RpcMessage::Response
RpcResponse(seq) ==
    [type |-> "Response", id |-> 0, method |-> "", params |-> NoParams, seq |-> seq,
     jsonrpc |-> JSON_RPC_VERSION, content_type |-> "utf-8"]

\* a frame that does not parse as an RpcMessage
Unparsable(seq) ==
    [type |-> "Unparsable", id |-> 0, method |-> "", params |-> NoParams, seq |-> seq,
     jsonrpc |-> JSON_RPC_VERSION, content_type |-> "utf-8"]

\* the message m with a jsonrpc member other than "2.0"
WrongVersion(m) == [m EXCEPT !.jsonrpc = "1.0"]

\* the message m in a frame whose Content-Type line names another encoding
UnknownEncoding(m) == [m EXCEPT !.content_type = "latin1"]

RpcMessage_validate(m) == m.jsonrpc = JSON_RPC_VERSION

\* From<serde_json::Error>, From<RuntimeError> and From<io::Error> for RpcError
RpcError_from_serde_json(e) == "ParseError"

RpcError_from_RuntimeError_parse(e) == "ParseError"

RpcError_from_RuntimeError(e) == "InternalError"

\* read_next_msg: the payload, or the error of a frame in an unknown encoding
read_next_msg(frame) ==
    IF frame.content_type \in {"utf8", "utf-8", ""}
    THEN [ok |-> TRUE, err |-> "", msg |-> frame]
    ELSE [ok |-> FALSE, err |-> RpcError_from_RuntimeError("UnknownEncoding"), msg |-> frame]

\* serde_json::from_str::<RpcMessage>
from_str_lenient(message) == [ok |-> TRUE, err |-> "", msg |-> message]

from_str(message) ==
    IF message.type = "Unparsable"
    THEN [ok |-> FALSE, err |-> RpcError_from_serde_json("syntax"), msg |-> message]
    ELSE [ok |-> TRUE, err |-> "", msg |-> message]

\* the params check of a generated exec with a typed parameter: "Ok" or the
\* RpcError it returns with
make_params_check(params) ==
    IF ~params.given THEN "InvalidParams"
    ELSE IF ~params.ok THEN RpcError_from_serde_json("data")
    ELSE "Ok"

\* ScheduledTask::Client(msg) / ScheduledTask::Server(Notification(run_diagnostic_op(uri)))
ScheduledTask_Client(msg) == [src |-> "Client", msg |-> msg]

run_diagnostic_op(document_uri) ==
    [src |-> "Server",
     msg |-> [type |-> "ServerNotification", id |-> 0, method |-> "run_diagnostic_op",
              params |-> Params(TRUE, document_uri, <<>>, <<>>), seq |-> 0]]

\* responses; id 0 is the null id
from_error(id, err) ==
    [type |-> "Error", id |-> id, code |-> err, uri |-> "", body |-> <<>>]

from_result(id, val) ==
    [type |-> "Result", id |-> id, code |-> "", uri |-> "", body |-> val]

publishDiagnostics(uri, diagnostics) ==
    [type |-> "Notification", id |-> 0, code |-> "textDocument/publishDiagnostics",
     uri |-> uri, body |-> diagnostics]

\* a Check of ruff: its rule code, the range it is reported at and the Fix it
\* may carry (an Option)
Check(code, start, end, fix) == [code |-> code, start |-> start, end |-> end, fix |-> fix]

\* the lint of ruff (outside this repository): one check per character of the
\* source text, reported at that character; the check of an 'a' carries a Fix
check(doc) ==
    [i \in 1..Len(doc) |->
        Check(doc[i], <<0, i - 1>>, <<0, i>>, IF doc[i] = 97 THEN Some(<<120>>) ELSE None)]

\* the order of (line, character) pairs
Position_lt(a, b) == a[1] < b[1] \/ (a[1] = b[1] /\ a[2] < b[2])

\* CheckRegistry::from_iter: the ordered collection of the checks
CheckRegistry_from_iter(check_vec) == check_vec

\* CheckRegistry::iter_range(start..end): the checks whose range intersects
\* [start, end), in order
CheckRegistry_iter_range(registry, start, end) ==
    SelectSeq(registry, LAMBDA c : Position_lt(c.start, end) /\ Position_lt(start, c.end))

\* diagnostic_from_check
diagnostic_from_check(c) == [code |-> c.code, range |-> <<c.start, c.end>>, source |-> "ruff"]

\* the CodeAction that doc_code_action makes of a check that carries a fix
QuickFix(c) ==
    [title |-> <<"fix", c.code>>, kind |-> "quickfix",
     diagnostics |-> <<diagnostic_from_check(c)>>, new_text |-> c.fix[1]]

\* a TextDocumentContentChangeEvent
Change(has_range, start_row, start_col, end_row, end_col, chars) ==
    [has_range |-> has_range, start |-> <<start_row, start_col>>,
     end |-> <<end_row, end_col>>, text |-> chars]

\* the loop of document_did_change over content_changes: [res, buf]
RECURSIVE apply_changes(_, _)
apply_changes(buffer, content_changes) ==
    IF content_changes = <<>>
    THEN [res |-> "Ok", buf |-> buffer]
    ELSE LET change == Head(content_changes)
             buf_of(r) == [row_tree |-> r.row_tree, text |-> r.text]
             inserted(i) ==
                 IF i.res # "Ok" THEN [res |-> i.res, buf |-> buf_of(i)]
                 ELSE apply_changes(buf_of(i), Tail(content_changes))
             deleted(d) ==
                 IF d.res # "Ok" THEN [res |-> d.res, buf |-> buf_of(d)]
                 ELSE inserted(insert_text(buf_of(d), change.text,
                                           change.start[1], change.start[2]))
         IN IF ~change.has_range THEN [res |-> "UnexpectedNone", buf |-> buffer]
            ELSE deleted(delete_range(buffer, change.start[1], change.start[2],
                                      change.end[1], change.end[2]))

\* handler bodies: [res, open_buffers, spawn], spawn the URI whose diagnostic
\* run the body submits (an Option)
document_did_open(bufs, doc_info) ==
    [res |-> "Ok",
     open_buffers |-> [bufs EXCEPT ![doc_info.uri] =
                          Some(DocumentBuffer_from_string(doc_info.text))],
     spawn |-> Some(doc_info.uri)]

document_did_change(bufs, doc_info) ==
    IF IsSome(bufs[doc_info.uri])
    THEN LET changed(r) ==
                 [res |-> r.res,
                  open_buffers |-> [bufs EXCEPT ![doc_info.uri] = Some(r.buf)],
                  spawn |-> IF r.res = "Ok" THEN Some(doc_info.uri) ELSE None]
         IN changed(apply_changes(bufs[doc_info.uri][1], doc_info.content_changes))
    ELSE [res |-> "EditUnopenedDocument", open_buffers |-> bufs, spawn |-> None]

\* doc_code_action: Ok(Some(actions of the registry)) or Ok(None)
doc_code_action_empty_list(chk, action_params) ==
    IF IsSome(chk[action_params.uri])
    THEN LET hits == CheckRegistry_iter_range(chk[action_params.uri][1],
                                              action_params.range[1],
                                              action_params.range[2])
             fixable == SelectSeq(hits, LAMBDA c : IsSome(c.fix))
         IN Some([i \in 1..Len(fixable) |-> QuickFix(fixable[i])])
    ELSE Some(<<>>)

doc_code_action(chk, action_params) ==
    IF IsSome(chk[action_params.uri])
    THEN LET hits == CheckRegistry_iter_range(chk[action_params.uri][1],
                                              action_params.range[1],
                                              action_params.range[2])
             fixable == SelectSeq(hits, LAMBDA c : IsSome(c.fix))
         IN Some([i \in 1..Len(fixable) |-> QuickFix(fixable[i])])
    ELSE None

\* the exec of run_diagnostic_op: [checks, resp]
run_diagnostic_exec(bufs, chk, document_uri) ==
    LET checked(check_vec) ==
            [checks |-> [chk EXCEPT ![document_uri] =
                            Some(CheckRegistry_from_iter(check_vec))],
             resp |-> publishDiagnostics(document_uri,
                         [i \in 1..Len(check_vec) |-> diagnostic_from_check(check_vec[i])])]
    IN checked(IF IsSome(bufs[document_uri])
               THEN check(DocumentBuffer_iter(bufs[document_uri][1]))
               ELSE <<>>)

(***************************************************************************)
(* The server: listener, dispatcher, spawned tasks, writer.                *)
(***************************************************************************)
MaxMsgs == 2

OpenTexts == {<<97, 98>>}

\* content_changes of a didChange: replace the first character, or a range
\* whose start lies after its end
ChangeLists ==
    {<<Change(TRUE, 0, 0, 0, 1, <<120>>)>>, <<Change(TRUE, 0, 1, 0, 0, <<>>)>>}

\* the ranges of the codeAction requests: the whole first line, and its
\* second character alone
CodeRanges == {<<<<0, 0>>, <<0, 2>>>>, <<<<0, 1>>, <<0, 2>>>>}

\* the frames the client may send as its seq-th frame
Frames(seq) ==
    {RpcRequest(seq, "textDocument/codeAction", CodeActionParams(TRUE, u, range)) :
        u \in URIs, range \in CodeRanges}
    \cup {RpcRequest(seq, "textDocument/codeAction",
                     CodeActionParams(FALSE, u, <<<<0, 0>>, <<0, 0>>>>)) : u \in URIs}
    \cup {RpcRequest(seq, "workspace/symbol", NoParams)}
    \cup {RpcNotification("initialized", NoParams, seq)}
    \cup {RpcNotification("textDocument/didOpen", Params(TRUE, u, chars, <<>>), seq) :
             u \in URIs, chars \in OpenTexts}
    \cup {RpcNotification("textDocument/didChange", Params(TRUE, u, <<>>, cs), seq) :
             u \in URIs, cs \in ChangeLists}
    \cup {RpcNotification("textDocument/didChange", NoParams, seq)}
    \cup {RpcNotification("$/setTrace", NoParams, seq)}
    \cup {RpcResponse(seq), Unparsable(seq)}
    \cup {WrongVersion(RpcRequest(seq, "workspace/symbol", NoParams))}

\* a spawned task: the leases it plans, how many it holds, where it is
\* (acquire, exec, send, cleanup, submit, done, panicked), whether it has
\* signalled the dispatcher, and the response it produced
NewTask(kind, handler, msg, pc, resp) ==
    LET locks == create_locks(handler)
    IN [kind |-> kind, handler |-> handler, msg |-> msg, locks |-> locks,
        leases |-> server_state_handles_from_locks(locks), acq |-> 0,
        pc |-> pc, notified |-> FALSE, resp |-> resp]

\* task t holds a guard on field f: taken in the acquire phase, dropped when
\* the body returns
Holds(t, f) ==
    /\ tasks[t].pc \in {"acquire", "exec"}
    /\ \E i \in 1..tasks[t].acq : tasks[t].leases[i] = f

\* a lock that excludes nobody
RwReq_lock_shared(t, f) == tasks[t].pc = "acquire"

\* RwReq::lock can return for task t on field f: readers share, a writer is alone
RwReq_lock(t, f) ==
    \A o \in DOMAIN tasks \ {t} :
        Holds(o, f) => (tasks[t].locks[f] = "Read" /\ tasks[o].locks[f] = "Read")

\* the end of a generated notification exec: Ok(_) => None, Err(e) => an error
\* response with null id
shape_notification_suppressed(res) == None

shape_notification(res) ==
    IF res = "Ok" THEN None
    ELSE Some(from_error(0, RpcError_from_RuntimeError(res)))

\* the end of a generated request exec: Ok(val) => the result, Err(e) => an
\* error response, both with the request's id
shape_request(id, res, val) ==
    IF res = "Ok" THEN from_result(id, val)
    ELSE from_error(id, RpcError_from_RuntimeError(res))

\* what the generated exec of a handler does with the state it was handed:
\* [pc, resp, open_buffers, checks, spawn, mutated]
exec(tk, bufs, chk) ==
    LET p == tk.msg.params
        keep == [pc |-> "done", resp |-> None, open_buffers |-> bufs, checks |-> chk,
                 spawn |-> None, mutated |-> FALSE]
        diagnosed(r) ==
            [keep EXCEPT !.pc = "send", !.resp = Some(r.resp), !.checks = r.checks]
        notified_of(r) ==
            [pc |-> IF r.res = "Panic" THEN "panicked"
                    ELSE IF shape_notification(r.res) = None THEN "done" ELSE "send",
             resp |-> IF r.res = "Panic" THEN None ELSE shape_notification(r.res),
             open_buffers |-> r.open_buffers, checks |-> chk, spawn |-> r.spawn,
             mutated |-> (tk.handler = "document_did_open" \/ IsSome(bufs[p.uri]))]
    IN IF tk.handler = "run_diagnostic_op"
       THEN diagnosed(run_diagnostic_exec(bufs, chk, p.uri))
       ELSE IF tk.handler = "doc_code_action"
       THEN [keep EXCEPT !.pc = "send",
                         !.resp = Some(IF make_params_check(p) = "Ok"
                                       THEN shape_request(tk.msg.id, "Ok",
                                                          doc_code_action(chk, p))
                                       ELSE from_error(tk.msg.id, make_params_check(p)))]
       ELSE IF tk.handler = "initialized_notif"
       THEN keep
       ELSE IF make_params_check(p) # "Ok"
       THEN [keep EXCEPT !.pc = "send", !.resp = Some(from_error(0, make_params_check(p)))]
       ELSE notified_of(IF tk.handler = "document_did_open"
                        THEN document_did_open(bufs, p)
                        ELSE document_did_change(bufs, p))

SrvInit ==
    /\ wire_n = 0 /\ msg_channel = <<>> /\ response_channel = <<>> /\ wire_out = <<>>
    /\ disp_pc = "recv" /\ disp_task = 0 /\ tasks = <<>>
    /\ open_buffers = EmptyMap /\ checks = EmptyMap /\ user_tasks = {}
    /\ alive = TRUE /\ applied = <<>>
    /\ DocIdle /\ RopeIdle /\ AvlIdle /\ HsIdle

\* next_msg_result of listen_loop: "Ok" or the error of the frame
listen_next(frame) ==
    IF ~read_next_msg(frame).ok THEN read_next_msg(frame).err
    ELSE IF ~from_str(frame).ok THEN from_str(frame).err
    ELSE IF ~RpcMessage_validate(frame) THEN "InvalidRequest"
    ELSE "Ok"

\* listen_loop: one frame read; a message goes to the task channel, a frame
\* that does not parse or validate makes a task that sends the error response
listen_loop(frame) ==
    /\ alive /\ wire_n < MaxMsgs
    /\ wire_n' = wire_n + 1
    /\ IF listen_next(frame) # "Ok"
       THEN /\ tasks' = Append(tasks, NewTask("error_response", "", frame, "send",
                                              Some(from_error(0, listen_next(frame)))))
            /\ UNCHANGED msg_channel
       ELSE /\ Len(msg_channel) < ChannelCapacity
            /\ msg_channel' = Append(msg_channel, ScheduledTask_Client(frame))
            /\ UNCHANGED tasks
    /\ UNCHANGED <<response_channel, wire_out, disp_pc, disp_task, open_buffers,
                   checks, user_tasks, alive, applied>>
    /\ UNCHANGED <<docvars, ropevars, avlvars, hsvars>>

\* handle_loop: the dispatcher takes the next scheduled task and handles it up
\* to the point where it waits for the spawned task's notify (or, for a
\* request without handler, up to the insertion in user_tasks)
handle_loop ==
    /\ alive /\ disp_pc = "recv" /\ msg_channel # <<>>
    /\ msg_channel' = Tail(msg_channel)
    /\ LET m == Head(msg_channel).msg
           spawned(tk, pc) ==
               /\ tasks' = Append(tasks, tk)
               /\ disp_task' = Len(tasks) + 1
               /\ disp_pc' = pc
       IN IF Head(msg_channel).src = "Server"
          THEN spawned(NewTask("server_notification", m.method, m, "acquire", None),
                       "notified")
          ELSE IF m.type = "Request"
          THEN IF IsSome(HashMap_get(REQUEST_REGISTRY, m.method))
               THEN spawned(NewTask("request", HashMap_get(REQUEST_REGISTRY, m.method)[1], m,
                                    "acquire", None), "notified")
               ELSE spawned(NewTask("method_not_found", "", m, "send",
                                    Some(from_error(m.id, "MethodNotFound"))), "insert")
          ELSE IF m.type = "Notification"
          THEN IF IsSome(HashMap_get(NOTIFICATION_REGISTRY, m.method))
               THEN spawned(NewTask("notification",
                                    HashMap_get(NOTIFICATION_REGISTRY, m.method)[1], m,
                                    "acquire", None), "notified")
               ELSE UNCHANGED <<tasks, disp_task, disp_pc>>
          ELSE /\ disp_pc' = "panicked"
               /\ UNCHANGED <<tasks, disp_task>>
    /\ UNCHANGED <<wire_n, response_channel, wire_out, open_buffers, checks,
                   user_tasks, alive, applied>>
    /\ UNCHANGED <<docvars, ropevars, avlvars, hsvars>>

\* the dispatcher goes on without waiting for the task's notify
notified_without_wait ==
    /\ alive /\ disp_pc = "notified"
    /\ disp_pc' = IF tasks[disp_task].kind = "request" THEN "insert" ELSE "recv"
    /\ UNCHANGED <<wire_n, msg_channel, response_channel, wire_out, disp_task, tasks,
                   open_buffers, checks, user_tasks, alive, applied>>
    /\ UNCHANGED <<docvars, ropevars, avlvars, hsvars>>

\* notify.notified().await returns: the spawned task holds all its leases
notified ==
    /\ alive /\ disp_pc = "notified"
    /\ tasks[disp_task].notified
    /\ disp_pc' = IF tasks[disp_task].kind = "request" THEN "insert" ELSE "recv"
    /\ UNCHANGED <<wire_n, msg_channel, response_channel, wire_out, disp_task, tasks,
                   open_buffers, checks, user_tasks, alive, applied>>
    /\ UNCHANGED <<docvars, ropevars, avlvars, hsvars>>

\* handle_client_msg, after schedule_request: tasks_lg.insert(id, task_handle)
user_tasks_insert ==
    /\ alive /\ disp_pc = "insert"
    /\ user_tasks' = {e \in user_tasks : e.id # tasks[disp_task].msg.id}
                        \cup {[id |-> tasks[disp_task].msg.id, handle |-> disp_task]}
    /\ disp_pc' = "recv"
    /\ UNCHANGED <<wire_n, msg_channel, response_channel, wire_out, disp_task, tasks,
                   open_buffers, checks, alive, applied>>
    /\ UNCHANGED <<docvars, ropevars, avlvars, hsvars>>

\* server_state_handles_from_locks in task t: the next lease is granted; after
\* the last one the task calls notify_one and enters the body
task_lock(t) ==
    /\ alive /\ tasks[t].pc = "acquire"
    /\ LET tk == tasks[t]
           n == Len(tk.leases)
       IN IF tk.acq < n
          THEN /\ RwReq_lock(t, tk.leases[tk.acq + 1])
               /\ tasks' = [tasks EXCEPT ![t].acq = tk.acq + 1,
                                         ![t].notified = (tk.acq + 1 = n),
                                         ![t].pc = IF tk.acq + 1 = n
                                                   THEN "exec" ELSE "acquire"]
          ELSE tasks' = [tasks EXCEPT ![t].notified = TRUE, ![t].pc = "exec"]
    /\ UNCHANGED <<wire_n, msg_channel, response_channel, wire_out, disp_pc, disp_task,
                   open_buffers, checks, user_tasks, alive, applied>>
    /\ UNCHANGED <<docvars, ropevars, avlvars, hsvars>>

\* the body of task t runs to its end and its guards are dropped; a body that
\* submits a diagnostic run spawns the task that sends it to the dispatcher
task_exec(t) ==
    /\ alive /\ tasks[t].pc = "exec"
    /\ \E r \in {exec(tasks[t], open_buffers, checks)} :
          /\ open_buffers' = r.open_buffers
          /\ checks' = r.checks
          /\ applied' = IF r.mutated THEN Append(applied, tasks[t].msg.seq) ELSE applied
          /\ tasks' = IF IsSome(r.spawn)
                      THEN Append([tasks EXCEPT ![t].pc = r.pc, ![t].resp = r.resp],
                                  NewTask("diag_submit", "",
                                          run_diagnostic_op(r.spawn[1]).msg,
                                          "submit", None))
                      ELSE [tasks EXCEPT ![t].pc = r.pc, ![t].resp = r.resp]
    /\ UNCHANGED <<wire_n, msg_channel, response_channel, wire_out, disp_pc, disp_task,
                   user_tasks, alive>>
    /\ UNCHANGED <<docvars, ropevars, avlvars, hsvars>>

\* response_channel.send(resp) of task t
task_send(t) ==
    /\ alive /\ tasks[t].pc = "send"
    /\ Len(response_channel) < ChannelCapacity
    /\ response_channel' = Append(response_channel, tasks[t].resp[1])
    /\ tasks' = [tasks EXCEPT ![t].pc = IF tasks[t].kind = "request"
                                        THEN "cleanup" ELSE "done"]
    /\ UNCHANGED <<wire_n, msg_channel, wire_out, disp_pc, disp_task, open_buffers,
                   checks, user_tasks, alive, applied>>
    /\ UNCHANGED <<docvars, ropevars, avlvars, hsvars>>

\* fut_cleanup of a request's task: tasks_lg.remove(&id)
fut_cleanup(t) ==
    /\ alive /\ tasks[t].pc = "cleanup"
    /\ user_tasks' = {e \in user_tasks : e.id # tasks[t].msg.id}
    /\ tasks' = [tasks EXCEPT ![t].pc = "done"]
    /\ UNCHANGED <<wire_n, msg_channel, response_channel, wire_out, disp_pc, disp_task,
                   open_buffers, checks, alive, applied>>
    /\ UNCHANGED <<docvars, ropevars, avlvars, hsvars>>

\* the task spawned by document_did_open / document_did_change sends
\* run_diagnostic_op(uri) to the dispatcher
diagnostic_submit(t) ==
    /\ alive /\ tasks[t].pc = "submit"
    /\ Len(msg_channel) < ChannelCapacity
    /\ msg_channel' = Append(msg_channel, run_diagnostic_op(tasks[t].msg.params.uri))
    /\ tasks' = [tasks EXCEPT ![t].pc = "done"]
    /\ UNCHANGED <<wire_n, response_channel, wire_out, disp_pc, disp_task, open_buffers,
                   checks, user_tasks, alive, applied>>
    /\ UNCHANGED <<docvars, ropevars, avlvars, hsvars>>

\* sender_loop: the next response is written to the client
sender_loop ==
    /\ alive /\ response_channel # <<>>
    /\ wire_out' = Append(wire_out, Head(response_channel))
    /\ response_channel' = Tail(response_channel)
    /\ UNCHANGED <<wire_n, msg_channel, disp_pc, disp_task, tasks, open_buffers,
                   checks, user_tasks, alive, applied>>
    /\ UNCHANGED <<docvars, ropevars, avlvars, hsvars>>

\* the panic of handle_loop unwinds run and main: the process ends
process_exit ==
    /\ alive /\ disp_pc = "panicked"
    /\ alive' = FALSE
    /\ UNCHANGED <<wire_n, msg_channel, response_channel, wire_out, disp_pc, disp_task,
                   tasks, open_buffers, checks, user_tasks, applied>>
    /\ UNCHANGED <<docvars, ropevars, avlvars, hsvars>>

\* the steps of the server itself: everything but the client's next frame
SrvStep ==
    \/ handle_loop
    \/ notified
    \/ user_tasks_insert
    \/ \E t \in DOMAIN tasks : task_lock(t)
    \/ \E t \in DOMAIN tasks : task_exec(t)
    \/ \E t \in DOMAIN tasks : task_send(t)
    \/ \E t \in DOMAIN tasks : fut_cleanup(t)
    \/ \E t \in DOMAIN tasks : diagnostic_submit(t)
    \/ sender_loop
    \/ process_exit

SrvNext ==
    \/ \E frame \in Frames(wire_n + 1) : listen_loop(frame)
    \/ SrvStep

SpecSrv == SrvInit /\ [][SrvNext]_vars

(***************************************************************************)
(* Properties of the server.                                               *)
(***************************************************************************)
HandlerKinds == {"request", "notification", "server_notification"}

\* the responses sent so far, written to the client or not
Responses == wire_out \o response_channel

\* no step of SrvStep is possible: the process has ended, or the dispatcher,
\* every task and the writer wait for something
ServerStopped ==
    \/ ~alive
    \/ /\ disp_pc \in {"recv", "notified"}
       /\ disp_pc = "recv" => msg_channel = <<>>
       /\ disp_pc = "notified" => ~tasks[disp_task].notified
       /\ response_channel = <<>>
       /\ \A t \in DOMAIN tasks :
             \/ tasks[t].pc \in {"done", "panicked"}
             \/ /\ tasks[t].pc = "acquire"
                /\ tasks[t].acq < Len(tasks[t].leases)
                /\ ~RwReq_lock(t, tasks[t].leases[tasks[t].acq + 1])
             \/ tasks[t].pc = "submit" /\ Len(msg_channel) >= ChannelCapacity
             \/ tasks[t].pc = "send" /\ Len(response_channel) >= ChannelCapacity

\* C3: the dispatcher pulls a task from the task channel only when every task
\* it spawned for an earlier message with a registered handler has acquired
\* every lease of its plan and has signalled it.
C3_DispatchWaitsForLeases ==
    [][Len(msg_channel') < Len(msg_channel) =>
          \A t \in DOMAIN tasks :
              tasks[t].kind \in HandlerKinds =>
                  (tasks[t].notified /\ tasks[t].acq = Len(tasks[t].leases))]_vars

\* C3 witness: the dispatcher has begun the plan of a second message while the
\* task of the first, holding all its leases, has not run its body yet
C3_Witness ==
    \E t1, t2 \in DOMAIN tasks :
        /\ t1 < t2
        /\ tasks[t1].kind = "notification" /\ tasks[t1].pc = "exec"
        /\ tasks[t1].leases # <<>> /\ tasks[t1].acq = Len(tasks[t1].leases)
        /\ tasks[t2].kind = "notification" /\ tasks[t2].pc = "acquire"
        /\ tasks[t2].leases # <<>> /\ tasks[t2].acq = 0

C5_NoDeadlock ==
    /\ \A t \in DOMAIN tasks :
          \A i, j \in DOMAIN tasks[t].leases :
              i < j => \E a, b \in DOMAIN FieldOrder :
                          /\ a < b
                          /\ FieldOrder[a] = tasks[t].leases[i]
                          /\ FieldOrder[b] = tasks[t].leases[j]
    /\ ServerStopped =>
          /\ msg_channel = <<>>
          /\ \A t \in DOMAIN tasks :
                tasks[t].kind \in HandlerKinds => tasks[t].acq = Len(tasks[t].leases)

\* C6: the didOpen / didChange notifications of a URI take effect on its buffer
\* in the order in which the listener read them.
C6_AppliedInWireOrder ==
    \A i, j \in DOMAIN applied : i < j => applied[i] < applied[j]

\* C6 witness: a didOpen and a following didChange have both been applied, and
\* the buffer holds the opened text with its first character replaced
C6_Witness ==
    /\ Len(applied) = 2
    /\ \E t1, t2 \in DOMAIN tasks :
          /\ tasks[t1].handler = "document_did_open" /\ tasks[t1].msg.seq = applied[1]
          /\ tasks[t2].handler = "document_did_change" /\ tasks[t2].msg.seq = applied[2]
    /\ \E u \in URIs :
          /\ IsSome(open_buffers[u])
          /\ DocumentBuffer_iter(open_buffers[u][1]) = <<120, 98>>

\* C7: once the server has nothing left to do, each URI has received exactly one
\* publishDiagnostics per didOpen / didChange that was applied to it.
C7_OneDiagnosticPerSync ==
    ServerStopped =>
        \A u \in URIs :
            Cardinality({i \in DOMAIN Responses :
                            /\ Responses[i].code = "textDocument/publishDiagnostics"
                            /\ Responses[i].uri = u})
            = Cardinality({t \in DOMAIN tasks :
                            /\ tasks[t].kind = "diag_submit"
                            /\ tasks[t].msg.params.uri = u})

\* C8: once the server has nothing left to do, each request the dispatcher
\* pulled has exactly one response with its id.
C8_OneResponsePerRequest ==
    ServerStopped =>
        \A t \in DOMAIN tasks :
            (tasks[t].msg.type = "Request" /\ tasks[t].kind # "error_response") =>
                Cardinality({i \in DOMAIN Responses :
                                /\ Responses[i].type \in {"Result", "Error"}
                                /\ Responses[i].id = tasks[t].msg.id}) = 1

\* C9: once the running server has nothing left to do, user_tasks holds no
\* entry whose task has finished.
C9_FinishedTasksRemoved ==
    (alive /\ ServerStopped) =>
        \A e \in user_tasks : tasks[e.handle].pc # "done"

\* the handlers that declare a typed parameter
TypedHandlers == {"doc_code_action", "document_did_open", "document_did_change"}

\* how the body of a notification's handler ends on the buffers it is handed:
\* "BadParams" when the params check returns before the body, else the body's
\* "Ok", "Panic" or RuntimeError
notification_outcome(tk, bufs) ==
    IF tk.handler \notin TypedHandlers THEN "Ok"
    ELSE IF make_params_check(tk.msg.params) # "Ok" THEN "BadParams"
    ELSE IF tk.handler = "document_did_open"
    THEN document_did_open(bufs, tk.msg.params).res
    ELSE document_did_change(bufs, tk.msg.params).res

\* task t leaves its body in this step
BodyEnds(t) == tasks[t].pc = "exec" /\ tasks'[t].pc # "exec"

\* C15: no handler body panics on client input, whatever the positions and
\* ranges of a didOpen / didChange / codeAction are.
C15_NoHandlerPanics ==
    \A t \in DOMAIN tasks : tasks[t].pc # "panicked"

\* C16: a notification whose handler succeeds puts nothing on the response
\* channel; one whose handler fails (bad params or runtime error) puts exactly
\* one error response with null id on it.
C16_NotificationResponses ==
    [][/\ \A t \in DOMAIN tasks :
             (tasks[t].kind = "notification" /\ BodyEnds(t)) =>
                LET shaped(o) ==
                        /\ o = "Ok" => (tasks'[t].resp = None /\ tasks'[t].pc = "done")
                        /\ o \notin {"Ok", "Panic"} =>
                              /\ tasks'[t].pc = "send"
                              /\ IsSome(tasks'[t].resp)
                              /\ tasks'[t].resp[1].type = "Error"
                              /\ tasks'[t].resp[1].id = 0
                IN shaped(notification_outcome(tasks[t], open_buffers))
       /\ \A t \in DOMAIN tasks :
             (tasks[t].kind = "notification" /\ tasks[t].pc = "send"
                 /\ tasks'[t].pc # "send") =>
                /\ response_channel' = Append(response_channel, tasks[t].resp[1])
                /\ tasks'[t].pc = "done"
       /\ Len(response_channel') > Len(response_channel) =>
             \E t \in DOMAIN tasks :
                /\ tasks[t].pc = "send" /\ tasks'[t].pc # "send"
                /\ response_channel' = Append(response_channel, tasks[t].resp[1])]_vars

\* a didOpen has ended without a response and a didChange of a document that
\* is not open has been answered with one error response with null id
C16_Witness ==
    \E t1, t2 \in DOMAIN tasks :
        /\ tasks[t1].handler = "document_did_open" /\ tasks[t1].pc = "done"
        /\ tasks[t1].resp = None
        /\ tasks[t2].handler = "document_did_change" /\ tasks[t2].pc = "done"
        /\ IsSome(tasks[t2].resp) /\ tasks[t2].resp[1].id = 0
        /\ Cardinality({i \in DOMAIN Responses : Responses[i].type = "Error"}) = 1

\* C17 (as stated): a runtime error of a request handler becomes an
\* InternalError reply, a runtime error of a notification handler is
\* suppressed: nothing is sent for the failed notification.
C17_NotificationErrorsSuppressed ==
    [][\A t \in DOMAIN tasks :
          (tasks[t].kind = "notification" /\ BodyEnds(t)) =>
             LET suppressed(o) ==
                     o \notin {"Ok", "Panic", "BadParams"} =>
                        (tasks'[t].resp = None /\ tasks'[t].pc = "done")
             IN suppressed(notification_outcome(tasks[t], open_buffers))]_vars

\* the RuntimeErrors a handler body can return
RuntimeErrors ==
    {"UnknownEncoding", "DocumentError", "EditUnopenedDocument", "UnexpectedNone",
     "InternalError", "UriToPathError"}

\* C17 (amended): a runtime error of a request handler becomes an InternalError
\* reply with the request's id, and a runtime error of a notification handler
\* becomes an InternalError response with null id that is sent to the client.
C17_RuntimeErrorsAnswered ==
    [][/\ \A t \in DOMAIN tasks :
             (tasks[t].kind = "notification" /\ BodyEnds(t)) =>
                LET answered(o) ==
                        o \notin {"Ok", "Panic", "BadParams"} =>
                           /\ tasks'[t].resp = Some(from_error(0, "InternalError"))
                           /\ tasks'[t].pc = "send"
                IN answered(notification_outcome(tasks[t], open_buffers))
       /\ \A id \in 1..MaxMsgs, e \in RuntimeErrors :
             shape_request(id, e, None) = from_error(id, "InternalError")]_vars

\* the client has been written the InternalError response, with null id, of a
\* didChange for a document that is not open
C17_Witness ==
    \E t \in DOMAIN tasks :
        /\ tasks[t].handler = "document_did_change" /\ tasks[t].pc = "done"
        /\ tasks[t].msg.params.given
        /\ tasks[t].resp = Some(from_error(0, "InternalError"))
        /\ \E i \in DOMAIN wire_out : wire_out[i] = from_error(0, "InternalError")

\* the dispatcher takes a client message in this step
Pulls(type) ==
    /\ disp_pc = "recv" /\ msg_channel # <<>> /\ msg_channel' = Tail(msg_channel)
    /\ Head(msg_channel).src = "Client"
    /\ Head(msg_channel).msg.type = type

\* C18: a request for a method without handler is answered with MethodNotFound
\* and the request's id; a notification for a method without handler gets no
\* response, spawns no task and changes no state of the server.
C18_UnknownMethods ==
    [][/\ (Pulls("Request")
             /\ Head(msg_channel).msg.method \notin DOMAIN REQUEST_REGISTRY) =>
             /\ Len(tasks') = Len(tasks) + 1
             /\ tasks'[Len(tasks')].pc = "send"
             /\ tasks'[Len(tasks')].resp =
                   Some(from_error(Head(msg_channel).msg.id, "MethodNotFound"))
             /\ tasks'[Len(tasks')].leases = <<>>
       /\ (Pulls("Notification")
             /\ Head(msg_channel).msg.method \notin DOMAIN NOTIFICATION_REGISTRY) =>
             UNCHANGED <<tasks, response_channel, wire_out, open_buffers, checks,
                         user_tasks, applied, disp_pc, alive>>]_vars

\* a workspace/symbol request has been answered with MethodNotFound and its
\* id, and a $/setTrace notification has been taken without a task
C18_Witness ==
    /\ wire_n = 2 /\ msg_channel = <<>> /\ disp_pc = "recv"
    /\ Len(tasks) = 1
    /\ tasks[1].kind = "method_not_found" /\ tasks[1].msg.jsonrpc = JSON_RPC_VERSION
    /\ wire_out = <<from_error(tasks[1].msg.id, "MethodNotFound")>>
    /\ tasks[1].msg.id > 0

\* a task that holds a Write lease on a field is the only holder of a lease
\* on that field
WriterAlone(f) ==
    \A t1, t2 \in DOMAIN tasks :
        (t1 # t2 /\ Holds(t1, f) /\ tasks[t1].locks[f] = "Write") => ~Holds(t2, f)

PublishOfBuffer(u) ==
    run_diagnostic_exec(open_buffers, checks, u).resp

\* C36: the publishDiagnostics notifications of a URI reach the client in the
\* order of the buffer versions they were computed from: once the one computed
\* from the present content of the buffer has been sent, no notification sent
\* after it for the URI was computed from another, older content; and when the
\* server has nothing left to do the registry stored for the URI is then the
\* one of the present content.
C36_PublishesInVersionOrder ==
    \A u \in URIs :
        \A i \in DOMAIN Responses :
            (IsSome(open_buffers[u]) /\ Responses[i] = PublishOfBuffer(u)) =>
                /\ \A j \in DOMAIN Responses :
                      (/\ i < j
                       /\ Responses[j].code = "textDocument/publishDiagnostics"
                       /\ Responses[j].uri = u) =>
                          Responses[j] = PublishOfBuffer(u)
                /\ ServerStopped =>
                      checks[u] = run_diagnostic_exec(open_buffers, checks, u).checks[u]

\* C37: a codeAction request read from the wire after a didOpen for the same
\* URI is not answered with null: the diagnostic run that the didOpen enqueued
\* has stored the registry of the URI before the body of the request reads it.
C37_CodeActionAfterOpen ==
    [][\A t \in DOMAIN tasks :
          (/\ tasks[t].handler = "doc_code_action"
           /\ tasks[t].pc = "exec" /\ tasks'[t].pc # "exec"
           /\ make_params_check(tasks[t].msg.params) = "Ok"
           /\ \E u \in DOMAIN tasks :
                 /\ tasks[u].handler = "document_did_open"
                 /\ make_params_check(tasks[u].msg.params) = "Ok"
                 /\ tasks[u].msg.params.uri = tasks[t].msg.params.uri
                 /\ tasks[u].msg.seq < tasks[t].msg.seq) =>
              /\ IsSome(tasks'[t].resp)
              /\ tasks'[t].resp[1].type = "Result"
              /\ tasks'[t].resp[1].body # None]_vars

\* C40: the dispatcher loop stays live for every validated client message:
\* having received a message that parsed as an RpcMessage, a Response-shaped
\* one included, it is at a point of handle_loop from which it goes on to pull
\* the following task, and the process is not ended by it.
C40_DispatcherStaysLive ==
    [][/\ handle_loop => disp_pc' \in {"recv", "notified", "insert"}
       /\ process_exit => FALSE]_vars

\* C19: an error response for a message that parsed as a Request carries the
\* id of that request; an error response for a frame that did not parse
\* carries the null id.
C19_ErrorsCarryRequestId ==
    \A t \in DOMAIN tasks :
        (IsSome(tasks[t].resp) /\ tasks[t].resp[1].type = "Error") =>
            /\ tasks[t].msg.type = "Request" => tasks[t].resp[1].id = tasks[t].msg.id
            /\ tasks[t].msg.type = "Unparsable" => tasks[t].resp[1].id = 0

\* C20: a handler with a typed parameter answers absent or undecodable params
\* with InvalidParams, and its body is not run.
C20_BadParamsInvalidParams ==
    \A t \in DOMAIN tasks :
        (/\ tasks[t].kind \in {"request", "notification"}
         /\ tasks[t].handler \in TypedHandlers
         /\ make_params_check(tasks[t].msg.params) # "Ok"
         /\ tasks[t].pc \notin {"acquire", "exec"}) =>
            /\ IsSome(tasks[t].resp)
            /\ tasks[t].resp[1].type = "Error"
            /\ tasks[t].resp[1].code = "InvalidParams"
            /\ \A i \in DOMAIN applied : applied[i] # tasks[t].msg.seq

\* the reader reads a frame in this step
Reads == wire_n' = wire_n + 1

FixableIn(registry, range) ==
    {i \in DOMAIN registry :
        /\ Position_lt(registry[i].start, range[2])
        /\ Position_lt(range[1], registry[i].end)
        /\ registry[i].fix # None}

\* C25: a textDocument/codeAction request for a URI that was never opened is
\* answered with a result of null; for a URI with a stored check registry it
\* is answered with a list (possibly empty) that holds one QuickFix action for
\* every check that intersects the range and carries a fix, and nothing else.
C25_CodeActionResult ==
    [][\A t \in DOMAIN tasks :
          (/\ tasks[t].handler = "doc_code_action"
           /\ tasks[t].pc = "exec" /\ tasks'[t].pc # "exec"
           /\ make_params_check(tasks[t].msg.params) = "Ok") =>
             LET p == tasks[t].msg.params
                 resp == tasks'[t].resp
                 opened == \E u \in DOMAIN tasks :
                              /\ tasks[u].handler = "document_did_open"
                              /\ tasks[u].msg.params.uri = p.uri
             IN /\ IsSome(resp)
                /\ resp[1].type = "Result" /\ resp[1].id = tasks[t].msg.id
                /\ ~opened => resp[1].body = None
                /\ ~IsSome(checks[p.uri]) => resp[1].body = None
                /\ IsSome(checks[p.uri]) =>
                      /\ IsSome(resp[1].body)
                      /\ Len(resp[1].body[1]) =
                            Cardinality(FixableIn(checks[p.uri][1], p.range))
                      /\ \A i \in FixableIn(checks[p.uri][1], p.range) :
                            \E k \in DOMAIN resp[1].body[1] :
                               /\ resp[1].body[1][k].kind = "quickfix"
                               /\ resp[1].body[1][k].title = <<"fix", checks[p.uri][1][i].code>>
                               /\ resp[1].body[1][k].new_text = checks[p.uri][1][i].fix[1]]_vars

\* the client has been written the answer to a codeAction request over the
\* whole line of an opened and linted document: one QuickFix, for the check of
\* the 'a', and none for the check of the 'b' that carries no fix
C25_Witness ==
    /\ IsSome(checks["file:///a.py"]) /\ Len(checks["file:///a.py"][1]) = 2
    /\ \E i \in DOMAIN wire_out :
          /\ wire_out[i].type = "Result"
          /\ IsSome(wire_out[i].body)
          /\ Len(wire_out[i].body[1]) = 1
          /\ wire_out[i].body[1][1].kind = "quickfix"
          /\ wire_out[i].body[1][1].title = <<"fix", 97>>

(***************************************************************************)
(* The server with a full response channel and a writer that has stalled.  *)
(***************************************************************************)
\* the number of responses the client still takes before it stops reading
MaxWritten == 1

\* the server after ChannelCapacity unparsable frames whose ParseError
\* responses are all in the response channel, none written yet, and whose
\* tasks have ended; frames are counted from here
BpInit ==
    /\ wire_n = 0 /\ msg_channel = <<>> /\ wire_out = <<>>
    /\ response_channel = [i \in 1..ChannelCapacity |-> from_error(0, "ParseError")]
    /\ disp_pc = "recv" /\ disp_task = 0 /\ tasks = <<>>
    /\ open_buffers = EmptyMap /\ checks = EmptyMap /\ user_tasks = {}
    /\ alive = TRUE /\ applied = <<>>
    /\ DocIdle /\ RopeIdle /\ AvlIdle /\ HsIdle

BpNext ==
    \/ \E frame \in Frames(wire_n + 1) : listen_loop(frame)
    \/ SrvStep /\ Len(wire_out') <= MaxWritten

SpecBp == BpInit /\ [][BpNext]_vars

\* C24: the task channel and the response channel never hold more than their
\* capacity, and while either of them is full the reader reads no further
\* frame.
C24_Backpressure ==
    [][/\ Len(msg_channel') <= ChannelCapacity
       /\ Len(response_channel') <= ChannelCapacity
       /\ (\/ Len(msg_channel) = ChannelCapacity
           \/ Len(response_channel) = ChannelCapacity) => ~Reads]_vars

(***************************************************************************)
(* AggAvlTree with the addition combiner under sequences of mutations.     *)
(***************************************************************************)
MaxAvlOps == 3

\* the vectors given to from_vec
AvlVecs == {Doc(n) : n \in {1, 2, 5, 12}}

\* the vectors whose elements are given to insert_front one after another
AvlFrontVecs == {Doc(n) : n \in {3, 11}}

\* the indices given to insert, update and delete
AvlIdxs == {0, 3, 6}

\* the value of the k-th mutation
AvlVal(k) == 100 * k

\* the tree after insert_front(e) for every e of elems in turn
RECURSIVE insert_front_all(_, _)
insert_front_all(root, elems) ==
    IF elems = <<>> THEN root
    ELSE insert_front_all(AggAvlTree_insert_front(root, Head(elems)), Tail(elems))

Reverse(s) == [i \in 1..Len(s) |-> s[Len(s) + 1 - i]]

AvlInit ==
    /\ \/ avl_root = AggAvlTree_new /\ avl_ref = <<>> /\ avl_op = "new"
       \/ \E elems \in AvlVecs :
             avl_root = AggAvlTree_from_vec(elems) /\ avl_ref = elems /\ avl_op = "from_vec"
       \/ \E elems \in AvlFrontVecs :
             /\ avl_root = insert_front_all(AggAvlTree_new, elems)
             /\ avl_ref = Reverse(elems)
             /\ avl_op = "insert_front"
    /\ avl_res = "Ok"
    /\ avl_n = 0
    /\ avl_rot = {}
    /\ DocIdle /\ RopeIdle /\ SrvIdle /\ HsIdle

\* AggAvlTree::insert(idx, val): an index past the end inserts at the back
AvlInsert(idx) ==
    /\ avl_n < MaxAvlOps
    /\ avl_root' = AggAvlTree_insert(avl_root, idx, AvlVal(avl_n + 1))
    /\ avl_ref' = Take(avl_ref, idx) \o <<AvlVal(avl_n + 1)>> \o Drop(avl_ref, idx)
    /\ avl_res' = "Ok"
    /\ avl_op' = "insert"
    /\ avl_rot' = IF IsSome(avl_root)
                  THEN avl_rot \cup insert_rotations(avl_root[1], idx, AvlVal(avl_n + 1))
                  ELSE avl_rot
    /\ avl_n' = avl_n + 1
    /\ UNCHANGED <<docvars, ropevars, srvvars, hsvars>>

AvlInsertFront ==
    /\ avl_n < MaxAvlOps
    /\ avl_root' = AggAvlTree_insert_front(avl_root, AvlVal(avl_n + 1))
    /\ avl_ref' = <<AvlVal(avl_n + 1)>> \o avl_ref
    /\ avl_res' = "Ok"
    /\ avl_op' = "insert_front"
    /\ avl_rot' = IF IsSome(avl_root)
                  THEN avl_rot \cup insert_rotations(avl_root[1], 0, AvlVal(avl_n + 1))
                  ELSE avl_rot
    /\ avl_n' = avl_n + 1
    /\ UNCHANGED <<docvars, ropevars, srvvars, hsvars>>

AvlInsertBack ==
    /\ avl_n < MaxAvlOps
    /\ avl_root' = AggAvlTree_insert_back(avl_root, AvlVal(avl_n + 1))
    /\ avl_ref' = Append(avl_ref, AvlVal(avl_n + 1))
    /\ avl_res' = "Ok"
    /\ avl_op' = "insert_back"
    /\ avl_rot' = IF IsSome(avl_root)
                  THEN avl_rot \cup insert_rotations(avl_root[1], get_elem_count(avl_root[1]) + 1, AvlVal(avl_n + 1))
                  ELSE avl_rot
    /\ avl_n' = avl_n + 1
    /\ UNCHANGED <<docvars, ropevars, srvvars, hsvars>>

AvlUpdate(idx) ==
    /\ avl_n < MaxAvlOps
    /\ \E r \in {AggAvlTree_update(avl_root, idx, AvlVal(avl_n + 1))} :
          /\ avl_root' = r.root
          /\ avl_res' = IF r.ok THEN "Ok" ELSE "IndexOutOfBounds"
    /\ avl_ref' = IF idx < Len(avl_ref)
                  THEN [avl_ref EXCEPT ![idx + 1] = AvlVal(avl_n + 1)]
                  ELSE avl_ref
    /\ avl_op' = "update"
    /\ UNCHANGED avl_rot
    /\ avl_n' = avl_n + 1
    /\ UNCHANGED <<docvars, ropevars, srvvars, hsvars>>

AvlDelete(idx) ==
    /\ avl_n < MaxAvlOps
    /\ \E r \in {AggAvlTree_delete(avl_root, idx)} :
          /\ avl_root' = r.root
          /\ avl_res' = IF r.ok THEN "Ok" ELSE "IndexOutOfBounds"
    /\ avl_ref' = IF idx < Len(avl_ref)
                  THEN Take(avl_ref, idx) \o Drop(avl_ref, idx + 1)
                  ELSE avl_ref
    /\ avl_op' = "delete"
    /\ avl_rot' = IF IsSome(avl_root) /\ idx < get_elem_count(avl_root[1])
                  THEN avl_rot \cup delete_rotations(avl_root[1], idx)
                  ELSE avl_rot
    /\ avl_n' = avl_n + 1
    /\ UNCHANGED <<docvars, ropevars, srvvars, hsvars>>

AvlNext ==
    \/ \E idx \in AvlIdxs : AvlInsert(idx)
    \/ AvlInsertFront
    \/ AvlInsertBack
    \/ \E idx \in AvlIdxs : AvlUpdate(idx)
    \/ \E idx \in AvlIdxs : AvlDelete(idx)

SpecAvl == AvlInit /\ [][AvlNext]_vars

\* every internal node of n has subtrees whose heights differ by less than 2
RECURSIVE TreeNode_balanced(_)
TreeNode_balanced(n) ==
    \/ n.kind = "Leaf"
    \/ /\ Abs(HeightOr(n.left, -1) - HeightOr(n.right, -1)) < 2
       /\ TreeNode_balanced(n.left)
       /\ TreeNode_balanced(n.right)

\* C11: with the addition combiner, get_range(l..r) for l < r <= len is the sum
\* of the elements at l..r-1, and for l >= r it is None.
C11_GetRangeIsSum ==
    \A l, r \in 0..(Len(avl_ref) + 1) :
        /\ (l < r /\ r <= Len(avl_ref)) =>
              AggAvlTree_get_range(avl_root, l, r) = Some(SumSeq(SubSeq(avl_ref, l + 1, r)))
        /\ l >= r => AggAvlTree_get_range(avl_root, l, r) = None

\* a tree of nine or more elements after an update and a delete, asked for a
\* range that spans both subtrees of the root and for an empty range
C11_Witness ==
    /\ avl_op = "delete" /\ avl_res = "Ok"
    /\ avl_n >= 2
    /\ Len(avl_ref) >= 9
    /\ \E k \in 1..Len(avl_ref) : avl_ref[k] >= 100
    /\ AggAvlTree_get_range(avl_root, 2, 8) = Some(SumSeq(SubSeq(avl_ref, 3, 8)))
    /\ AggAvlTree_get_range(avl_root, 5, 5) = None

\* C12: after every mutation (insert, insert_front, insert_back, update, delete)
\* the heights of the two subtrees of every internal node differ by less than 2.
C12_Balanced ==
    IsSome(avl_root) => TreeNode_balanced(avl_root[1])

\* every internal node of n holds the element count, the height and the
\* aggregate that its children give
RECURSIVE TreeNode_consistent(_)
TreeNode_consistent(n) ==
    \/ n.kind = "Leaf"
    \/ /\ n.elem_count = Len(TreeNode_elems(n))
       /\ n.child_height = 1 + Max(HeightOr(n.left, -1), HeightOr(n.right, -1))
       /\ n.agg = SumSeq(TreeNode_elems(n))
       /\ TreeNode_consistent(n.left)
       /\ TreeNode_consistent(n.right)

\* C33: after any sequence of insert, insert_front, insert_back, update and
\* delete the in-order leaves equal the reference list, len() equals its
\* length, and every internal node's cached element count, height and
\* aggregate equal the values recomputed from its children.
C33_RefinesSequence ==
    /\ AggAvlTree_elems(avl_root) = avl_ref
    /\ AggAvlTree_len(avl_root) = Len(avl_ref)
    /\ IsSome(avl_root) => TreeNode_consistent(avl_root[1])

\* A run whose three calls each rebalanced the tree with a different
\* rotation, and whose tree still is the reference list with every cached
\* field right.
C33_Witness ==
    /\ avl_n = MaxAvlOps
    /\ Cardinality(avl_rot) >= 3
    /\ "balance_rr" \in avl_rot
    /\ IsSome(avl_root)
    /\ AggAvlTree_elems(avl_root) = avl_ref
    /\ TreeNode_consistent(avl_root[1])

\* C27: update(idx, v) and delete(idx) with idx >= len, the empty tree
\* included, return IndexOutOfBounds and leave the tree as it was: the same
\* elements, the same cached counts and the same aggregates.
C27_OutOfBoundsLeavesTree ==
    [][\A idx \in AvlIdxs :
          (/\ idx >= Len(avl_ref)
           /\ AvlUpdate(idx) \/ AvlDelete(idx)) =>
              /\ avl_res' = "IndexOutOfBounds"
              /\ avl_root' = avl_root
              /\ AggAvlTree_elems(avl_root') = avl_ref]_vars

\* a delete at index len of a tree with internal nodes has been refused after
\* an earlier mutation; update at the same index and on the empty tree refuse too
C27_Witness ==
    /\ avl_op = "delete" /\ avl_res = "IndexOutOfBounds"
    /\ avl_n >= 2
    /\ Len(avl_ref) \in {3, 6}
    /\ AggAvlTree_elems(avl_root) = avl_ref
    /\ AggAvlTree_delete(avl_root, Len(avl_ref)).ok = FALSE
    /\ AggAvlTree_update(avl_root, Len(avl_ref), 7) = [ok |-> FALSE, root |-> avl_root]
    /\ AggAvlTree_update(AggAvlTree_new, 0, 7).ok = FALSE

(***************************************************************************)
(* The start of Server::run: get_init_msg, Server::init, then the loops.   *)
(***************************************************************************)
MaxInitFrames == 3

\* the URLs that Url::to_file_path converts
FileUrls == {"file:///a.py", "file:///proj"}

\* rootUri of InitializeParams: "" is an absent rootUri
RootUris == {"", "file:///proj", "http://proj"}

InitializeParams(ok, root_uri) == Params(ok, root_uri, <<>>, <<>>)

\* the frames the client may send as its seq-th frame before and after the
\* initialize request
InitFrames(seq) ==
    {RpcRequest(seq, "initialize", InitializeParams(TRUE, u)) : u \in RootUris}
    \cup {RpcRequest(seq, "initialize", InitializeParams(FALSE, "")),
          RpcRequest(seq, "initialize", NoParams),
          RpcRequest(seq, "textDocument/codeAction", Params(TRUE, "file:///a.py", <<>>, <<>>)),
          RpcNotification("textDocument/didOpen", Params(TRUE, "file:///a.py", <<>>, <<>>), seq),
          RpcNotification("initialize", InitializeParams(TRUE, ""), seq),
          RpcResponse(seq),
          Unparsable(seq),
          UnknownEncoding(RpcRequest(seq, "initialize", InitializeParams(TRUE, ""))),
          WrongVersion(RpcRequest(seq, "initialize", InitializeParams(TRUE, "")))}

\* parse_init_request: [ok, err, id, params]
parse_init_request(req_msg) ==
    LET fail(e) == [ok |-> FALSE, err |-> e, id |-> 0, params |-> NoParams]
    IN IF ~from_str(req_msg).ok THEN fail(from_str(req_msg).err)
       ELSE IF req_msg.type = "Request"
       THEN IF req_msg.method # "initialize" THEN fail("ServerNotInitialized")
            ELSE IF ~req_msg.params.given THEN fail("ParseError")
            ELSE IF ~req_msg.params.ok THEN fail(RpcError_from_serde_json("data"))
            ELSE [ok |-> TRUE, err |-> "", id |-> req_msg.id, params |-> req_msg.params]
       ELSE fail("ServerNotInitialized")

\* message_result of get_init_msg for one frame
message_result(frame) ==
    IF read_next_msg(frame).ok
    THEN parse_init_request(frame)
    ELSE [ok |-> FALSE, err |-> read_next_msg(frame).err, id |-> 0, params |-> NoParams]

\* ServerState::from_init: "Ok" or the RuntimeError it returns
ServerState_from_init(init_params) ==
    IF init_params.uri # "" /\ init_params.uri \notin FileUrls
    THEN "UriToPathError"
    ELSE "Ok"

HsInit ==
    /\ hs_state = "Uninitialised" /\ hs_pc = "get_init_msg"
    /\ hs_out = <<>> /\ hs_log = <<>>
    /\ FrameIdle
    /\ DocIdle /\ RopeIdle /\ SrvIdle /\ AvlIdle

HsLogged(frame, resp, after) ==
    Append(hs_log, [frame |-> frame, before |-> hs_state, resp |-> resp, after |-> after])

\* one round of the loop of get_init_msg: a frame that is no initialize
\* request is answered with an error and the loop reads on
get_init_msg(frame) ==
    /\ hs_pc = "get_init_msg" /\ Len(hs_log) < MaxInitFrames
    /\ ~message_result(frame).ok
    /\ hs_out' = Append(hs_out, from_error(0, message_result(frame).err))
    /\ hs_log' = HsLogged(frame, Some(from_error(0, message_result(frame).err)), hs_state)
    /\ UNCHANGED <<hs_state, hs_pc>>
    /\ UNCHANGED <<framevars, docvars, ropevars, srvvars, avlvars>>

\* the last round of get_init_msg and what Server::run does with its result:
\* init(..).unwrap(), the InitializeResult written, the loops started
run(frame) ==
    /\ hs_pc = "get_init_msg" /\ Len(hs_log) < MaxInitFrames
    /\ message_result(frame).ok
    /\ IF ServerState_from_init(message_result(frame).params) = "Ok"
       THEN /\ hs_state' = "Initialised"
            /\ hs_pc' = "loops"
            /\ hs_out' = Append(hs_out, from_result(message_result(frame).id,
                                                    "InitializeResult"))
            /\ hs_log' = HsLogged(frame, Some(from_result(message_result(frame).id,
                                                          "InitializeResult")),
                                  "Initialised")
       ELSE /\ hs_pc' = "panicked"
            /\ hs_log' = HsLogged(frame, None, hs_state)
            /\ UNCHANGED <<hs_state, hs_out>>
    /\ UNCHANGED <<framevars, docvars, ropevars, srvvars, avlvars>>

\* a frame read by listen_loop once the loops run: Server.state is not
\* assigned again (what is answered is the matter of the server actions)
run_loops(frame) ==
    /\ hs_pc = "loops" /\ Len(hs_log) < MaxInitFrames
    /\ hs_log' = HsLogged(frame, None, hs_state)
    /\ UNCHANGED <<hs_state, hs_pc, hs_out>>
    /\ UNCHANGED <<framevars, docvars, ropevars, srvvars, avlvars>>

\* the client closes the input: every read_line of read_next_msg now returns
\* Ok(0) with an empty line, which does not match the Content-Length pattern,
\* so the first loop of read_next_msg goes round without end; get_init_msg or
\* listen_loop never gets a result, and handle_loop and sender_loop go on
\* waiting on their channels
read_next_msg_eof ==
    /\ hs_pc \in {"get_init_msg", "loops"}
    /\ hs_pc' = "read_line_eof"
    /\ UNCHANGED <<hs_state, hs_out, hs_log>>
    /\ UNCHANGED <<framevars, docvars, ropevars, srvvars, avlvars>>

HsNext ==
    \/ read_next_msg_eof
    \/ \E frame \in InitFrames(Len(hs_log) + 1) : get_init_msg(frame)
    \/ \E frame \in InitFrames(Len(hs_log) + 1) : run(frame)
    \/ \E frame \in InitFrames(Len(hs_log) + 1) : run_loops(frame)

SpecHs == HsInit /\ [][HsNext]_vars

\* the frames the claim lists as no valid initialize request
NotInitialize(frame) ==
    /\ frame.content_type = "utf-8"
    /\ \/ frame.type \in {"Unparsable", "Notification"}
       \/ frame.type = "Request" /\ frame.method # "initialize"
       \/ frame.type = "Request" /\ frame.method = "initialize" /\ ~frame.params.given

ValidInitialize(frame) ==
    /\ frame.content_type = "utf-8"
    /\ frame.type = "Request" /\ frame.method = "initialize"
    /\ frame.jsonrpc = JSON_RPC_VERSION
    /\ frame.params.given /\ frame.params.ok

\* the responses written for the frames read so far, in the order of the frames
LogResponses ==
    LET F[i \in 0..Len(hs_log)] ==
            IF i = 0 THEN <<>> ELSE F[i - 1] \o hs_log[i].resp
    IN F[Len(hs_log)]

\* C14: while Uninitialised, a frame that is no valid initialize request gets
\* exactly one error response (ParseError or ServerNotInitialized), written
\* before the next frame is read, and leaves the server Uninitialised; the
\* first valid initialize makes it Initialised, and it stays Initialised.
C14_Handshake ==
    /\ hs_out = LogResponses
    /\ \A i \in 1..Len(hs_log) :
          /\ (hs_log[i].before = "Uninitialised" /\ NotInitialize(hs_log[i].frame)) =>
                /\ IsSome(hs_log[i].resp)
                /\ hs_log[i].resp[1].type = "Error"
                /\ hs_log[i].resp[1].code \in {"ParseError", "ServerNotInitialized"}
                /\ hs_log[i].after = "Uninitialised"
          /\ (hs_log[i].before = "Uninitialised" /\ ValidInitialize(hs_log[i].frame)) =>
                hs_log[i].after = "Initialised"
          /\ hs_log[i].before = "Initialised" => hs_log[i].after = "Initialised"

\* C22: a message whose jsonrpc member is not "2.0" is never accepted: it is
\* not taken as the initialize request (nor put on the task channel) and it is
\* answered with InvalidRequest (-32600).
C22_WrongVersionRejected ==
    \A i \in 1..Len(hs_log) :
        (/\ hs_log[i].before = "Uninitialised"
         /\ read_next_msg(hs_log[i].frame).ok
         /\ from_str(hs_log[i].frame).ok
         /\ ~RpcMessage_validate(hs_log[i].frame)) =>
            /\ hs_log[i].after = "Uninitialised"
            /\ IsSome(hs_log[i].resp)
            /\ hs_log[i].resp[1].type = "Error"
            /\ hs_log[i].resp[1].code = "InvalidRequest"

\* C23: when the reader reaches the end of the input, the run of the server
\* comes to an end (the writer aborted, the response channel drained); the
\* reader does not go on looping on the exhausted input.
C23_EofEndsRun ==
    hs_pc # "read_line_eof"

(***************************************************************************)
(* The reader of frames (read_next_msg) on the bytes of the input.         *)
(***************************************************************************)
MaxFrames == 2

\* "Content-Length:", "Content-Type:", "utf-8", "utf8", "latin1" and the
\* header "X-A: b" as bytes
CONTENT_LENGTH == <<67, 111, 110, 116, 101, 110, 116, 45, 76, 101, 110, 103, 116, 104, 58>>

CONTENT_TYPE == <<67, 111, 110, 116, 101, 110, 116, 45, 84, 121, 112, 101, 58>>

UTF_8 == <<117, 116, 102, 45, 56>>

UTF8 == <<117, 116, 102, 56>>

LATIN1 == <<108, 97, 116, 105, 110, 49>>

X_HEADER == <<88, 45, 65, 58, 32, 98>>

RECURSIVE Decimal(_)
Decimal(n) == IF n < 10 THEN <<48 + n>> ELSE Append(Decimal(n \div 10), 48 + (n % 10))

\* the header lines of the client, without their line ends
ContentLength(n) == CONTENT_LENGTH \o <<32>> \o Decimal(n)

ContentType(encoding) == CONTENT_TYPE \o <<32>> \o encoding

\* a frame as the client writes it: every header line and the blank line end
\* in CR LF, the payload follows
Frame(headers, payload) == [headers |-> headers, body |-> payload]

RECURSIVE HeaderBytes(_)
HeaderBytes(headers) ==
    IF headers = <<>> THEN <<>>
    ELSE Head(headers) \o <<CR, LF>> \o HeaderBytes(Tail(headers))

FrameBytes(f) == HeaderBytes(f.headers) \o <<CR, LF>> \o f.body

\* char::is_whitespace and the class \s on ASCII; the class \d
IsWhitespace(c) == c \in {9, 10, 11, 12, 13, 32}

IsDigit(c) == c \in 48..57

RECURSIVE trim_start(_)
trim_start(s) ==
    IF s # <<>> /\ IsWhitespace(Head(s)) THEN trim_start(Tail(s)) ELSE s

RECURSIVE trim_end(_)
trim_end(s) ==
    IF s # <<>> /\ IsWhitespace(s[Len(s)]) THEN trim_end(Take(s, Len(s) - 1)) ELSE s

\* str::trim
str_trim(s) == trim_end(trim_start(s))

\* reader.read_line(&mut buff): the bytes up to and including the next LF;
\* without an LF in the input the call waits for more bytes
read_line(input) ==
    LET ends == {i \in DOMAIN input : input[i] = LF}
        n == IF ends = {} THEN 0 ELSE CHOOSE i \in ends : \A j \in ends : i <= j
    IN [got |-> n > 0, buff |-> Take(input, n), rest |-> Drop(input, n)]

RECURSIVE trailing_digits(_)
trailing_digits(s) ==
    IF s # <<>> /\ IsDigit(s[Len(s)]) THEN 1 + trailing_digits(Take(s, Len(s) - 1)) ELSE 0

ends_with(s, suffix) ==
    Len(s) >= Len(suffix) /\ Drop(s, Len(s) - Len(suffix)) = suffix

\* PAYLOAD_START_PATTERN.captures(&buff), the pattern being
\* Content-Length:\s*(?P<size>\d+)\r\n$ : the digits of size (an Option)
PAYLOAD_START_PATTERN_captures(buff) ==
    IF Len(buff) < 2 \/ Drop(buff, Len(buff) - 2) # <<CR, LF>> THEN None
    ELSE LET line == Take(buff, Len(buff) - 2)
             nd == trailing_digits(line)
         IN IF nd > 0 /\ ends_with(trim_end(Take(line, Len(line) - nd)), CONTENT_LENGTH)
            THEN Some(Drop(line, Len(line) - nd))
            ELSE None

RECURSIVE parse(_)
parse(digits) ==
    IF digits = <<>> THEN 0 ELSE 10 * parse(Take(digits, Len(digits) - 1))
                                 + (digits[Len(digits)] - 48)

\* the digits of u32::MAX, 4294967295
U32_MAX == <<52, 50, 57, 52, 57, 54, 55, 50, 57, 53>>

RECURSIVE strip_zeros(_)
strip_zeros(digits) ==
    IF digits # <<>> /\ Head(digits) = 48 THEN strip_zeros(Tail(digits)) ELSE digits

RECURSIVE digits_gt(_, _)
digits_gt(a, b) ==
    a # <<>> /\ (Head(a) > Head(b) \/ (Head(a) = Head(b) /\ digits_gt(Tail(a), Tail(b))))

\* num_str.parse::<u32>() is an Err: the number does not fit in 32 bits
parse_overflows(digits) ==
    \/ Len(strip_zeros(digits)) > Len(U32_MAX)
    \/ Len(strip_zeros(digits)) = Len(U32_MAX) /\ digits_gt(strip_zeros(digits), U32_MAX)

\* the first loop of read_next_msg: lines are read until one matches
RECURSIVE num_str(_)
num_str(input) ==
    LET line == read_line(input)
    IN IF ~line.got THEN [got |-> FALSE, size |-> <<>>, rest |-> input]
       ELSE IF IsSome(PAYLOAD_START_PATTERN_captures(line.buff))
       THEN [got |-> TRUE, size |-> PAYLOAD_START_PATTERN_captures(line.buff)[1],
             rest |-> line.rest]
       ELSE num_str(line.rest)

\* read_next_msg on the bytes not yet consumed: Ok(payload), the error
\* UnknownEncoding(line), the panic of parse::<u32>().unwrap(), or Pending
\* while the bytes it needs have not arrived; rest is what it leaves unread
read_next_msg_bytes(input) ==
    LET start == num_str(input)
        line == read_line(start.rest)
        content_length == parse(start.size)
    IN IF ~start.got THEN [res |-> "Pending", val |-> <<>>, rest |-> input]
       ELSE IF parse_overflows(start.size)
       THEN [res |-> "Panic", val |-> <<>>, rest |-> start.rest]
       ELSE IF ~line.got THEN [res |-> "Pending", val |-> <<>>, rest |-> input]
       ELSE IF str_trim(line.buff) \notin {UTF8, UTF_8, <<>>}
       THEN [res |-> "UnknownEncoding", val |-> line.buff, rest |-> line.rest]
       ELSE IF Len(line.rest) < content_length
       THEN [res |-> "Pending", val |-> <<>>, rest |-> input]
       ELSE [res |-> "Ok", val |-> Take(line.rest, content_length),
             rest |-> Drop(line.rest, content_length)]

\* the payloads "{}" and "[]"
Payloads == {<<123, 125>>, <<91, 93>>}

\* the header blocks of the client: Content-Length alone; with a Content-Type
\* of the encoding utf-8 after or before it; with an unknown header before or
\* after it; with a Content-Type of the encoding latin1; and followed by the
\* bare line utf-8
HeaderBlocks(n) ==
    {<<ContentLength(n)>>,
     <<ContentLength(n), ContentType(UTF_8)>>,
     <<ContentType(UTF_8), ContentLength(n)>>,
     <<X_HEADER, ContentLength(n)>>,
     <<ContentLength(n), X_HEADER>>,
     <<ContentLength(n), ContentType(LATIN1)>>,
     <<ContentLength(n), UTF_8>>}

ClientFrames == {Frame(h, b) : h \in HeaderBlocks(2), b \in Payloads}

FrameInit == DocIdle /\ RopeIdle /\ SrvIdle /\ AvlIdle /\ HsIdle

\* the client writes one more frame
client_write(f) ==
    /\ Len(frames_sent) < MaxFrames
    /\ frames_sent' = Append(frames_sent, f)
    /\ reader' = reader \o FrameBytes(f)
    /\ UNCHANGED <<msgs_read, hs_state, hs_pc, hs_out, hs_log>>
    /\ UNCHANGED <<docvars, ropevars, srvvars, avlvars>>

\* one call of read_next_msg by get_init_msg or listen_loop returns
read_next_msg_returns ==
    /\ \A k \in DOMAIN msgs_read : msgs_read[k].res # "Panic"
    /\ \E r \in {read_next_msg_bytes(reader)} :
          /\ r.res # "Pending"
          /\ msgs_read' = Append(msgs_read, [res |-> r.res, val |-> r.val])
          /\ reader' = r.rest
    /\ UNCHANGED <<frames_sent, hs_state, hs_pc, hs_out, hs_log>>
    /\ UNCHANGED <<docvars, ropevars, srvvars, avlvars>>

FrameNext ==
    \/ \E f \in ClientFrames : client_write(f)
    \/ read_next_msg_returns

SpecFrame == FrameInit /\ [][FrameNext]_vars

\* a frame of the shape the reader is specified for: one Content-Length header
\* that gives the length of the payload, Content-Type headers of an accepted
\* encoding and unknown headers in any number and order
IsSpecifiedFrame(f) ==
    /\ Cardinality({i \in DOMAIN f.headers : f.headers[i] = ContentLength(Len(f.body))}) = 1
    /\ \A i \in DOMAIN f.headers :
          f.headers[i] \in {ContentLength(Len(f.body)), ContentType(UTF_8),
                            ContentType(UTF8), X_HEADER}

RECURSIVE FramesBytes(_)
FramesBytes(fs) == IF fs = <<>> THEN <<>> ELSE FrameBytes(Head(fs)) \o FramesBytes(Tail(fs))

\* C35: when every frame the client wrote has a Content-Length header,
\* optionally a Content-Type header with an accepted encoding and any unknown
\* headers, then a blank line, the k-th call of the reader returns exactly the
\* payload of the k-th frame and leaves the reader at the start of the frame
\* after it; and UnknownEncoding is returned only when a frame names an
\* unsupported encoding.
C35_FramesRead ==
    /\ (\A i \in DOMAIN frames_sent : IsSpecifiedFrame(frames_sent[i])) =>
          /\ Len(msgs_read) <= Len(frames_sent)
          /\ \A k \in DOMAIN msgs_read :
                msgs_read[k] = [res |-> "Ok", val |-> frames_sent[k].body]
          /\ reader = FramesBytes(Drop(frames_sent, Len(msgs_read)))
    /\ (\E k \in DOMAIN msgs_read : msgs_read[k].res = "UnknownEncoding") =>
          \E i \in DOMAIN frames_sent : \E j \in DOMAIN frames_sent[i].headers :
              frames_sent[i].headers[j] = ContentType(LATIN1)

(***************************************************************************)
(* The body of document_did_change on its own: one didChange after the     *)
(* other, nothing else running.                                            *)
(***************************************************************************)
MaxChanges == 2

\* the documents opened before the changes: "ab" and "a\nb"
ChangeDocs == {<<97, 98>>, <<97, LF, 98>>}

\* the content changes of the client: a range whose start is not after its
\* end, in or out of the bounds of the documents, replaced by "x"; and a
\* change without a range
ContentChanges ==
    {Change(TRUE, sr, sc, er, ec, <<120>>) :
        sr \in 0..1, sc \in 0..2, er \in 0..1, ec \in 0..2}
    \cup {Change(FALSE, 0, 0, 0, 0, <<120>>)}

OrderedChanges ==
    {c \in ContentChanges :
        c.start[1] < c.end[1] \/ (c.start[1] = c.end[1] /\ c.start[2] <= c.end[2])}

\* the changes that follow another one in a list: one without a range, one
\* in bounds, one out of bounds
LaterChanges ==
    {Change(FALSE, 0, 0, 0, 0, <<120>>), Change(TRUE, 0, 0, 0, 1, <<120>>),
     Change(TRUE, 1, 2, 1, 2, <<120>>)}

ContentChangeLists ==
    {<<c>> : c \in OrderedChanges} \cup {<<c, d>> : c \in OrderedChanges, d \in LaterChanges}

ChangeInit ==
    /\ wire_n = 0 /\ msg_channel = <<>> /\ response_channel = <<>> /\ wire_out = <<>>
    /\ disp_pc = "idle" /\ disp_task = 0 /\ tasks = <<>>
    /\ \/ open_buffers = EmptyMap
       \/ \E chars \in ChangeDocs :
             open_buffers = [u \in URIs |-> Some(DocumentBuffer_from_string(chars))]
    /\ checks = EmptyMap /\ user_tasks = {} /\ alive = TRUE /\ applied = <<>>
    /\ DocIdle /\ RopeIdle /\ AvlIdle /\ HsIdle

\* the task of one textDocument/didChange, holding its lease on open_buffers,
\* runs its body to the end; a body that returns Ok spawns the task that submits the diagnostic run
did_change_exec(u, content_changes) ==
    /\ wire_n < MaxChanges
    /\ wire_n' = wire_n + 1
    /\ \E nt \in {NewTask("notification", "document_did_change",
                          RpcNotification("textDocument/didChange",
                                          Params(TRUE, u, <<>>, content_changes),
                                          wire_n + 1),
                          "exec", None)} :
       \E tk \in {[nt EXCEPT !.acq = Len(nt.leases), !.notified = TRUE]} :
       \E r \in {exec(tk, open_buffers, checks)} :
          /\ open_buffers' = r.open_buffers
          /\ applied' = IF r.mutated THEN Append(applied, tk.msg.seq) ELSE applied
          /\ tasks' = IF IsSome(r.spawn)
                      THEN tasks \o <<[tk EXCEPT !.pc = r.pc, !.resp = r.resp],
                                      NewTask("diag_submit", "",
                                              run_diagnostic_op(r.spawn[1]).msg,
                                              "submit", None)>>
                      ELSE Append(tasks, [tk EXCEPT !.pc = r.pc, !.resp = r.resp])
    /\ UNCHANGED <<msg_channel, response_channel, wire_out, disp_pc, disp_task, checks,
                   user_tasks, alive>>
    /\ UNCHANGED <<docvars, ropevars, avlvars, hsvars>>

ChangeNext == \E u \in URIs, content_changes \in ContentChangeLists :
                 did_change_exec(u, content_changes)

SpecChange == ChangeInit /\ [][ChangeNext]_vars

\* C38: a didChange whose body ends in an error (unknown URI, a change
\* without a range, a coordinate out of bounds in any of its content changes)
\* leaves open_buffers exactly as it was before the body ran, and submits no
\* diagnostic run.
C38_FailedChangeKeepsBuffers ==
    [][\A t \in DOMAIN tasks' :
          (/\ t \notin DOMAIN tasks
           /\ tasks'[t].handler = "document_did_change"
           /\ IsSome(tasks'[t].resp)
           /\ tasks'[t].resp[1].type = "Error") =>
              /\ open_buffers' = open_buffers
              /\ Len(tasks') = Len(tasks) + 1]_vars
====
